---------------------------- MODULE Spec2Model ----------------------------
(***************************************************************************)
(* Model of the metadata-driven validation and positional-encoding engine  *)
(* of the DJ repository (core/validation/validator.py,                     *)
(* core/generation/generator_simple.py, generator_compuesta.py,            *)
(* core/access_schema.py, core/dispatcher.py).                             *)
(*                                                                         *)
(* Text is a sequence of one-character strings.  A cell value is a record  *)
(* [t, n, s]: t = "null" (NaN, the missing value of a table), t = "none"   *)
(* (Python None), t = "int" (a Python int n) or t = "str" (a Python str s).*)
(***************************************************************************)
EXTENDS Integers, Sequences, FiniteSets, TLC

VARIABLES
    campos,          \* GeneratorSimple.campos: field code -> info_campo
    fila,            \* the row handed to _generar_linea: column -> value
    linea,           \* outcome of _generar_linea: [st, txt]
    valMeta,         \* metadata given to DJValidator (campos + validaciones)
    df,              \* the table handed to validar_dataframe
    lookupCache,     \* DJValidator._lookup_cache: table name -> table
    resultado,       \* report returned by the last validar_dataframe call
    previo,          \* [df, res] of the call before the last one
    evaluadas,       \* (field, rule, row, n): the n-th evaluation of the last call
    consultas,       \* table names fetched from the store by the last call
    secMeta,         \* GeneratorCompuesta.campos: field code -> seccion
    secDatos,        \* dataframes_secciones: ordered (name, rows, columns)
    estructura,      \* report of validar_estructura_secciones
    consolidado,     \* outcome of consolidar_dataframes
    despacho,        \* what DJDispatcher._validar_datos did with the sections
    llamada,         \* arguments of one call of a GeneratorSimple formatter
    retorno,         \* what that call returned
    pedido,          \* arguments of DJDispatcher.procesar_dj_completo
    proceso,         \* the resultado dictionary it returned
    documentos,      \* DataGenerar._documentos
    indices,         \* DataGenerar._indices, in insertion order
    genUltimo,       \* last DataGenerar operation and what it returned
    entregados,      \* (id, document) of every store not yet deleted
    declaraciones,   \* DataDeclaracion._declaraciones
    indices_folio,   \* DataDeclaracion._indices_folio
    indices_periodo, \* DataDeclaracion._indices_periodo
    decUltimo,       \* last DataDeclaracion.store call and its outcome
    decExitos,       \* number of store calls that returned
    rutEntrada,      \* the text handed to the RUT functions
    rutSalida        \* what the last RUT function returned

vars == <<campos, fila, linea, valMeta, df, lookupCache, resultado, previo,
          evaluadas, consultas, secMeta, secDatos, estructura, consolidado,
          despacho, llamada, retorno, pedido, proceso, documentos, indices,
          genUltimo, entregados, declaraciones, indices_folio, indices_periodo,
          decUltimo, decExitos, rutEntrada, rutSalida>>

encVars == <<campos, fila, linea>>
valVars == <<valMeta, df, lookupCache, resultado, previo, evaluadas, consultas>>
secVars == <<secMeta, secDatos, estructura, consolidado, despacho>>
fmtVars == <<llamada, retorno>>

\* the variables of the other components, which an operation leaves alone
disVars == <<pedido, proceso>>
genVars == <<documentos, indices, genUltimo, entregados>>
decVars == <<declaraciones, indices_folio, indices_periodo, decUltimo, decExitos>>
rutVars == <<rutEntrada, rutSalida>>
almVars == <<genVars, decVars, rutVars>>
fueraDeEnc == <<valVars, secVars, fmtVars, disVars, almVars>>
fueraDeVal == <<encVars, secVars, fmtVars, disVars, almVars>>
fueraDeSec == <<encVars, valVars, fmtVars, disVars, almVars>>
fueraDeFmt == <<encVars, valVars, secVars, disVars, almVars>>
fueraDeDis == <<encVars, valVars, secVars, fmtVars, almVars>>
fueraDeGen == <<encVars, valVars, secVars, fmtVars, disVars, decVars, rutVars>>
fueraDeDec == <<encVars, valVars, secVars, fmtVars, disVars, genVars, rutVars>>
fueraDeRut == <<encVars, valVars, secVars, fmtVars, disVars, genVars, decVars>>

(***************************************************************************)
(* Bounds of the model.                                                    *)
(***************************************************************************)
MaxLongitud == 3
MaxDecimales == 1

(***************************************************************************)
(* Text helpers (Python str methods).                                      *)
(***************************************************************************)
Rep(c, n) == [i \in 1..n |-> c]

Take(s, n) == IF Len(s) > n THEN SubSeq(s, 1, n) ELSE s

Drop(s, n) == IF n >= Len(s) THEN <<>> ELSE SubSeq(s, n + 1, Len(s))

IsSpace(c) == c = " "

RECURSIVE LStrip(_)
LStrip(s) == IF s # <<>> /\ IsSpace(Head(s)) THEN LStrip(Tail(s)) ELSE s

RECURSIVE RStrip(_)
RStrip(s) ==
    IF s # <<>> /\ IsSpace(s[Len(s)]) THEN RStrip(SubSeq(s, 1, Len(s) - 1)) ELSE s

Strip(s) == RStrip(LStrip(s))

Ljust(s, w, c) == IF Len(s) >= w THEN s ELSE s \o Rep(c, w - Len(s))

Rjust(s, w, c) == IF Len(s) >= w THEN s ELSE Rep(c, w - Len(s)) \o s

\* CPython: left = pad/2 + (pad & width & 1)
Center(s, w, c) ==
    IF Len(s) >= w THEN s
    ELSE LET pad == w - Len(s)
             left == (pad \div 2) + (IF pad % 2 = 1 /\ w % 2 = 1 THEN 1 ELSE 0)
         IN  Rep(c, left) \o s \o Rep(c, pad - left)

Zfill(s, w) ==
    IF Len(s) >= w THEN s
    ELSE IF s # <<>> /\ Head(s) \in {"+", "-"}
         THEN <<Head(s)>> \o Rep("0", w - Len(s)) \o Tail(s)
         ELSE Rep("0", w - Len(s)) \o s

RECURSIVE Without(_, _)
Without(s, c) ==
    IF s = <<>> THEN <<>>
    ELSE IF Head(s) = c THEN Without(Tail(s), c)
         ELSE <<Head(s)>> \o Without(Tail(s), c)

RECURSIVE Concat(_)
Concat(ss) == IF ss = <<>> THEN <<>> ELSE Head(ss) \o Concat(Tail(ss))

Digits == <<"0", "1", "2", "3", "4", "5", "6", "7", "8", "9">>

IsDigit(c) == \E i \in 1..10 : Digits[i] = c

DigitVal(c) == (CHOOSE i \in 1..10 : Digits[i] = c) - 1

AllDigits(s) == \A i \in 1..Len(s) : IsDigit(s[i])

RECURSIVE NatOf(_)
NatOf(s) == IF s = <<>> THEN 0 ELSE 10 * NatOf(SubSeq(s, 1, Len(s) - 1)) + DigitVal(s[Len(s)])

RECURSIVE NatStr(_)
NatStr(n) == IF n < 10 THEN <<Digits[n + 1]>> ELSE NatStr(n \div 10) \o <<Digits[(n % 10) + 1]>>

IntStr(n) == IF n < 0 THEN <<"-">> \o NatStr(-n) ELSE NatStr(n)

RECURSIVE Pow10(_)
Pow10(k) == IF k = 0 THEN 1 ELSE 10 * Pow10(k - 1)

(***************************************************************************)
(* Cell values and str(valor).                                             *)
(***************************************************************************)
Null == [t |-> "null", n |-> 0, s |-> <<>>]

NoneV == [t |-> "none", n |-> 0, s |-> <<>>]

IntV(k) == [t |-> "int", n |-> k, s |-> <<>>]

StrV(x) == [t |-> "str", n |-> 0, s |-> x]

PyStr(v) == IF v.t = "int" THEN IntStr(v.n) ELSE v.s

(***************************************************************************)
(* float(valor_str) on the text the model uses: optional surrounding       *)
(* blanks, optional sign, then "inf", "nan" or digits with an optional     *)
(* point.  A finite number is kept exactly as (-1)^neg * mant / 10^frac.   *)
(***************************************************************************)
FloatErr == [k |-> "err", neg |-> FALSE, mant |-> 0, frac |-> 0]

PosOf(s, c) == IF \E i \in 1..Len(s) : s[i] = c
               THEN CHOOSE i \in 1..Len(s) : s[i] = c /\ \A j \in 1..(i - 1) : s[j] # c
               ELSE 0

ParseUnsigned(body, neg) ==
    IF body = <<"i", "n", "f">> THEN [k |-> "inf", neg |-> neg, mant |-> 0, frac |-> 0]
    ELSE IF body = <<"n", "a", "n">> THEN [k |-> "nan", neg |-> neg, mant |-> 0, frac |-> 0]
    ELSE LET p == PosOf(body, ".")
             ip == IF p = 0 THEN body ELSE SubSeq(body, 1, p - 1)
             fp == IF p = 0 THEN <<>> ELSE Drop(body, p)
         IN  IF AllDigits(ip) /\ AllDigits(fp) /\ Len(ip) + Len(fp) > 0
             THEN [k |-> "fin", neg |-> neg, mant |-> NatOf(ip \o fp), frac |-> Len(fp)]
             ELSE FloatErr

PyFloat(s) ==
    LET b == Strip(s)
    IN  IF b = <<>> THEN FloatErr
        ELSE IF Head(b) \in {"+", "-"} THEN ParseUnsigned(Tail(b), Head(b) = "-")
             ELSE ParseUnsigned(b, FALSE)

\* int(x) for a float x: truncation towards zero; OverflowError on inf,
\* ValueError on nan.
PyInt(x) ==
    IF x.k = "inf" THEN [st |-> "OverflowError", n |-> 0]
    ELSE IF x.k = "nan" THEN [st |-> "ValueError", n |-> 0]
    ELSE LET m == x.mant \div Pow10(x.frac)
         IN  [st |-> "ok", n |-> IF x.neg THEN -m ELSE m]

\* "{:.<d>f}".format(x).  A decimal tie is rounded half to even, which is
\* what CPython prints for the exactly representable values the model uses.
FormatFixed(x, d) ==
    IF x.k = "inf" THEN (IF x.neg THEN <<"-">> ELSE <<>>) \o <<"i", "n", "f">>
    ELSE IF x.k = "nan" THEN <<"n", "a", "n">>
    ELSE LET scaled ==
                 IF x.frac <= d THEN x.mant * Pow10(d - x.frac)
                 ELSE LET q == Pow10(x.frac - d)
                          lo == x.mant \div q
                          r2 == 2 * (x.mant % q)
                      IN  IF r2 > q \/ (r2 = q /\ lo % 2 = 1) THEN lo + 1 ELSE lo
             ent == NatStr(scaled \div Pow10(d))
             dec == Rjust(NatStr(scaled % Pow10(d)), d, "0")
         IN  (IF x.neg THEN <<"-">> ELSE <<>>) \o ent \o <<".">> \o dec

(***************************************************************************)
(* GeneratorSimple                                                         *)
(***************************************************************************)
\* _aplicar_alineacion without the truncation of lines 238-239
_aplicar_alineacion_sin_truncar(valor_str, longitud, relleno, alineacion) ==
    IF longitud <= 0 THEN valor_str
    ELSE LET r == IF Len(relleno) # 1 THEN " " ELSE relleno[1]
         IN  IF alineacion = "RIGHT" THEN Rjust(valor_str, longitud, r)
             ELSE IF alineacion = "CENTER" THEN Center(valor_str, longitud, r)
             ELSE Ljust(valor_str, longitud, r)

_aplicar_alineacion(valor_str, longitud, relleno, alineacion) ==
    IF longitud <= 0 THEN valor_str
    ELSE LET r == IF Len(relleno) # 1 THEN " " ELSE relleno[1]
             v == Take(valor_str, longitud)
         IN  IF alineacion = "RIGHT" THEN Rjust(v, longitud, r)
             ELSE IF alineacion = "CENTER" THEN Center(v, longitud, r)
             ELSE Ljust(v, longitud, r)

Ok(txt) == [st |-> "ok", txt |-> txt]

Raise(e) == [st |-> e, txt |-> <<>>]

_formatear_numerico(valor_str, decimales, longitud, relleno, alineacion) ==
    LET x == PyFloat(valor_str)
        i == PyInt(x)
    IN  IF valor_str = <<>> \/ x.k = "err" \/ i.st = "ValueError"
        THEN Ok(_aplicar_alineacion(<<"0">>, longitud, relleno, alineacion))
        ELSE IF i.st # "ok" THEN Raise(i.st)
        ELSE Ok(_aplicar_alineacion(IntStr(i.n), longitud, relleno, alineacion))

\* _formatear_decimal without the zfill of line 169
_formatear_decimal_sin_zfill(valor_str, decimales, longitud, relleno, alineacion) ==
    LET x == PyFloat(valor_str)
        numero == IF valor_str = <<>> \/ x.k = "err"
                  THEN [k |-> "fin", neg |-> FALSE, mant |-> 0, frac |-> 0]
                  ELSE x
    IN  IF decimales > 0
        THEN Ok(_aplicar_alineacion(Without(FormatFixed(numero, decimales), "."),
                                    longitud, relleno, alineacion))
        ELSE LET i == PyInt(numero)
             IN  IF i.st # "ok" THEN Raise(i.st)
                 ELSE Ok(_aplicar_alineacion(IntStr(i.n), longitud, relleno, alineacion))

_formatear_decimal(valor_str, decimales, longitud, relleno, alineacion) ==
    LET x == PyFloat(valor_str)
        numero == IF valor_str = <<>> \/ x.k = "err"
                  THEN [k |-> "fin", neg |-> FALSE, mant |-> 0, frac |-> 0]
                  ELSE x
    IN  IF decimales > 0
        THEN Ok(_aplicar_alineacion(
                    Zfill(Without(FormatFixed(numero, decimales), "."), longitud),
                    longitud, relleno, alineacion))
        ELSE LET i == PyInt(numero)
             IN  IF i.st # "ok" THEN Raise(i.st)
                 ELSE Ok(_aplicar_alineacion(IntStr(i.n), longitud, relleno, alineacion))

\* re.match(r'\d{4}-\d{2}-\d{2}', s) and the two DD?MM?YYYY patterns: a
\* match at the start of s; what follows the pattern is not looked at.
MatchDate(s, a, sep, b, c) ==
    /\ Len(s) >= a + b + c + 2
    /\ AllDigits(SubSeq(s, 1, a))
    /\ s[a + 1] = sep
    /\ AllDigits(SubSeq(s, a + 2, a + b + 1))
    /\ s[a + b + 2] = sep
    /\ AllDigits(SubSeq(s, a + b + 3, a + b + c + 2))

RECURSIVE Split(_, _)
Split(s, sep) ==
    LET p == PosOf(s, sep)
    IN  IF p = 0 THEN <<s>> ELSE <<SubSeq(s, 1, p - 1)>> \o Split(Drop(s, p), sep)

_formatear_fecha(valor_str, longitud, relleno, alineacion) ==
    LET fecha_str ==
            IF valor_str = <<>> THEN <<>>
            ELSE IF MatchDate(valor_str, 4, "-", 2, 2) THEN Without(valor_str, "-")
            ELSE IF MatchDate(valor_str, 2, "/", 2, 4)
                 THEN LET partes == Split(valor_str, "/")
                      IN  partes[3] \o partes[2] \o partes[1]
            ELSE IF MatchDate(valor_str, 2, "-", 2, 4)
                 THEN LET partes == Split(valor_str, "-")
                      IN  partes[3] \o partes[2] \o partes[1]
            ELSE valor_str
    IN  Ok(_aplicar_alineacion(fecha_str, longitud, relleno, alineacion))

_formatear_texto(valor_str, longitud, relleno, alineacion) ==
    LET limpio == Strip(valor_str)
        \* texto_limpio[:longitud]; a negative longitud counts from the end
        cortado == IF Len(limpio) > longitud
                   THEN (IF longitud >= 0 THEN SubSeq(limpio, 1, longitud)
                         ELSE SubSeq(limpio, 1, Len(limpio) + longitud))
                   ELSE limpio
    IN  Ok(_aplicar_alineacion(cortado, longitud, relleno, alineacion))

_formatear_valor(valor, info_campo) ==
    LET valor_str == IF valor.t \in {"null", "none"} THEN <<>> ELSE PyStr(valor)
        longitud == info_campo.longitud
        tipo_dato == info_campo.tipo_dato
        alineacion == info_campo.alineacion
        relleno == info_campo.relleno
        decimales == info_campo.decimales
    IN  IF tipo_dato \in {"INTEGER", "NUMERIC"}
        THEN _formatear_numerico(valor_str, decimales, longitud, relleno, alineacion)
        ELSE IF tipo_dato = "DECIMAL"
        THEN _formatear_decimal(valor_str, decimales, longitud, relleno, alineacion)
        ELSE IF tipo_dato = "DATE"
        THEN _formatear_fecha(valor_str, longitud, relleno, alineacion)
        ELSE _formatear_texto(valor_str, longitud, relleno, alineacion)

\* sorted(campos_lista, key=posicion): stable insertion into a sorted list
RECURSIVE InsertaOrdenado(_, _)
InsertaOrdenado(c, orden) ==
    IF orden = <<>> THEN <<c>>
    ELSE IF orden[Len(orden)].info.posicion <= c.info.posicion THEN Append(orden, c)
         ELSE Append(InsertaOrdenado(c, SubSeq(orden, 1, Len(orden) - 1)), orden[Len(orden)])

\* the fields in the order the metadata lists them
_obtener_campos_sin_ordenar(cs) == cs

RECURSIVE _obtener_campos_ordenados(_)
_obtener_campos_ordenados(cs) ==
    IF cs = <<>> THEN <<>>
    ELSE InsertaOrdenado(cs[Len(cs)], _obtener_campos_ordenados(SubSeq(cs, 1, Len(cs) - 1)))

\* fila.get(codigo_campo, '')
FilaGet(f, codigo) == IF codigo \in DOMAIN f THEN f[codigo] ELSE StrV(<<>>)

RECURSIVE _generar_linea(_, _)
_generar_linea(f, campos_ordenados) ==
    IF campos_ordenados = <<>> THEN Ok(<<>>)
    ELSE LET campo == Head(campos_ordenados)
             parte == _formatear_valor(FilaGet(f, campo.codigo), campo.info)
             resto == _generar_linea(f, Tail(campos_ordenados))
         IN  IF parte.st # "ok" THEN parte
             ELSE IF resto.st # "ok" THEN resto
             ELSE Ok(parte.txt \o resto.txt)

(***************************************************************************)
(* Inputs of the encoder.                                                  *)
(***************************************************************************)
Tipos == {"TEXT", "INTEGER", "DECIMAL", "DATE"}

Alineaciones == {"LEFT", "RIGHT", "CENTER"}

\* RELLENO as stored: one character, or an empty text
Rellenos == {<<"*">>, <<>>}

InfoCampos ==
    {i \in [tipo_dato : Tipos, longitud : 0..MaxLongitud, decimales : 0..MaxDecimales,
            alineacion : Alineaciones, relleno : Rellenos, posicion : {2}] :
        i.tipo_dato # "DECIMAL" => i.decimales = 0}

InfoCamposB ==
    [tipo_dato : {"TEXT", "DECIMAL"}, longitud : 0..MaxLongitud,
     decimales : {MaxDecimales}, alineacion : {"RIGHT"}, relleno : {<<"0">>},
     posicion : {1, 2, 3}]

Metadatas ==
    {<<[codigo |-> "C1", info |-> i]>> : i \in InfoCampos}
    \cup {<<[codigo |-> "C1", info |-> i], [codigo |-> "C2", info |-> j]>> :
            i \in InfoCampos, j \in InfoCamposB}

Valores ==
    {Null, StrV(<<" ">>), StrV(<<" ", "a", "b", "c", "d">>), IntV(-12),
     StrV(<<"1", ".", "2", "5">>), StrV(<<"i", "n", "f">>), StrV(<<"n", "a", "n">>),
     StrV(<<"1", "5", "/", "0", "3", "/", "2", "0", "2", "4">>)}

ValoresB == {Null, StrV(<<"7">>)}

Filas ==
    {<<>>} \cup [{"C1"} -> Valores] \cup [{"C2"} -> ValoresB]
    \cup {f \in [{"C1", "C2"} -> Valores] : f["C2"] \in ValoresB}

SinLinea == [st |-> "none", txt |-> <<>>]

EncReposo == campos = <<>> /\ fila = <<>> /\ linea = SinLinea

ValReposo ==
    /\ valMeta = <<>> /\ df = <<>> /\ lookupCache = <<>> /\ resultado = <<>>
    /\ previo = <<>> /\ evaluadas = {} /\ consultas = <<>>

SecReposo ==
    /\ secMeta = <<>> /\ secDatos = <<>> /\ estructura = <<>>
    /\ consolidado = <<>> /\ despacho = <<>>

FmtReposo == llamada = <<>> /\ retorno = <<>>

DisReposo == pedido = <<>> /\ proceso = <<>>

GenReposo ==
    documentos = <<>> /\ indices = <<>> /\ genUltimo = <<>> /\ entregados = <<>>

DecReposo ==
    /\ declaraciones = <<>> /\ indices_folio = <<>> /\ indices_periodo = <<>>
    /\ decUltimo = <<>> /\ decExitos = 0

RutReposo == rutEntrada = <<>> /\ rutSalida = <<>>

AlmReposo == GenReposo /\ DecReposo /\ RutReposo

InitEnc ==
    /\ campos \in Metadatas
    /\ fila = <<>>
    /\ linea = SinLinea
    /\ ValReposo
    /\ SecReposo
    /\ FmtReposo
    /\ DisReposo
    /\ AlmReposo

GenerarLinea ==
    \E f \in Filas :
        /\ fila' = f
        /\ linea' = _generar_linea(f, _obtener_campos_ordenados(campos))
        /\ UNCHANGED <<campos, fueraDeEnc>>

NextEnc == GenerarLinea

SpecEnc == InitEnc /\ [][NextEnc]_vars

RECURSIVE SumaLongitudes(_)
SumaLongitudes(cs) ==
    IF cs = <<>> THEN 0 ELSE cs[1].info.longitud + SumaLongitudes(Tail(cs))

(***************************************************************************)
(* AccessSchema: the metadata store and the lookup tables.                 *)
(***************************************************************************)
MaxFilas == 3
MaxActivas == 2

\* get_validaciones_declaracion: WHERE ACTIVA = True (ignoring the flag)
get_validaciones_declaracion_todas(bd) == bd.validaciones

\* get_validaciones_declaracion: WHERE DJ_CODIGO = ? AND ACTIVA = True
get_validaciones_declaracion(bd) ==
    SelectSeq(bd.validaciones, LAMBDA v : v.activa)

\* the code of the field with this CAMPO_ID, <<>> when there is none
CodigoDeCampo(campos_dict, campo_id) ==
    LET hits == SelectSeq(campos_dict, LAMBDA c : c.campo_id = campo_id)
    IN  IF hits = <<>> THEN <<>> ELSE <<hits[1].codigo>>

\* validaciones_dict[codigo_campo].append(...), keys in first-appearance order
AgregaValidacion(dict, codigo, regla) ==
    IF \E i \in 1..Len(dict) : dict[i].campo = codigo
    THEN [i \in 1..Len(dict) |->
            IF dict[i].campo = codigo
            THEN [dict[i] EXCEPT !.reglas = Append(@, regla)]
            ELSE dict[i]]
    ELSE Append(dict, [campo |-> codigo, reglas |-> <<regla>>])

RECURSIVE AgrupaValidaciones(_, _)
AgrupaValidaciones(filasBD, campos_dict) ==
    IF filasBD = <<>> THEN <<>>
    ELSE LET v == filasBD[Len(filasBD)]
             antes == AgrupaValidaciones(SubSeq(filasBD, 1, Len(filasBD) - 1), campos_dict)
             cod == CodigoDeCampo(campos_dict, v.campo_id)
         IN  IF cod = <<>> THEN antes
             ELSE AgregaValidacion(antes, cod[1],
                      [codigo_validacion |-> v.codigo_validacion,
                       expresion_py |-> v.expresion_py,
                       mensaje_error |-> v.mensaje_error])

get_metadata_completa(bd) ==
    [campos |-> bd.campos,
     validaciones |-> AgrupaValidaciones(get_validaciones_declaracion(bd), bd.campos)]

\* the reference tables of the store; any other name makes the query raise
TablasLookup ==
    [UF |-> <<[COD |-> IntV(5), VAL |-> IntV(1)]>>,
     REG |-> <<[COD |-> IntV(5), NOM |-> StrV(<<"r">>)]>>]

get_tabla_lookup(tabla_nombre) ==
    IF tabla_nombre \in DOMAIN TablasLookup
    THEN [st |-> "ok", filas |-> TablasLookup[tabla_nombre]]
    ELSE [st |-> "Error", filas |-> <<>>]

(***************************************************************************)
(* DJValidator                                                             *)
(***************************************************************************)
FilaNone == 0

\* a column label that is not a str (an integer label) has no lower()
EsTexto(col) == col # "#7"

Lower(col) ==
    IF col = "C1" THEN "c1" ELSE IF col = "C2" THEN "c2"
    ELSE IF col = "VALOR" THEN "valor" ELSE col

Serie == [t |-> "serie", n |-> 0, s |-> <<>>]

ContextoFijo(valor) == [valor |-> valor, v |-> valor, fila |-> Serie]

\* contexto[col.lower()] = fila_actual.get(col), later keys overwrite
RECURSIVE AgregaColumnas(_, _, _, _)
AgregaColumnas(ctx, cols, filaActual, codigo_campo) ==
    IF cols = <<>> THEN ctx
    ELSE LET col == Head(cols)
             nuevo == IF col = codigo_campo THEN ctx
                      ELSE [k \in DOMAIN ctx \cup {Lower(col)} |->
                              IF k = Lower(col) THEN filaActual[col] ELSE ctx[k]]
         IN  AgregaColumnas(nuevo, Tail(cols), filaActual, codigo_campo)

_preparar_contexto_validacion(valor, fila_idx, tabla, codigo_campo) ==
    IF \E i \in 1..Len(tabla.columns) :
           tabla.columns[i] # codigo_campo /\ ~EsTexto(tabla.columns[i])
    THEN [st |-> "AttributeError", ctx |-> <<>>]
    ELSE [st |-> "ok",
          ctx |-> AgregaColumnas(ContextoFijo(valor), tabla.columns,
                                 tabla.rows[fila_idx + 1], codigo_campo)]

\* tabla_df[tabla_df[campo_buscar] == valor_buscar].iloc[0][campo_retorno];
\* a KeyError on either column is swallowed by the except of _buscar_lookup
BuscarEnTabla(tabla_df, campo_buscar, valor_buscar, campo_retorno) ==
    LET conCampo == \A i \in 1..Len(tabla_df) : campo_buscar \in DOMAIN tabla_df[i]
        res == SelectSeq(tabla_df, LAMBDA r : r[campo_buscar] = valor_buscar)
    IN  IF ~conCampo THEN NoneV
        ELSE IF Len(res) > 0 /\ campo_retorno \in DOMAIN res[1] THEN res[1][campo_retorno]
        ELSE NoneV

CacheCon(cache, tabla, filas) ==
    [k \in DOMAIN cache \cup {tabla} |-> IF k = tabla THEN filas ELSE cache[k]]

\* the same with the failed fetch remembered as an empty table
LookupTraida_guarda_fallo(traida, tabla, campo_buscar, valor_buscar, campo_retorno, cache) ==
    [val |-> BuscarEnTabla(traida.filas, campo_buscar, valor_buscar, campo_retorno),
     cache |-> CacheCon(cache, tabla, traida.filas),
     fetched |-> <<tabla>>]

\* what _buscar_lookup does with the table the store returned (or raised)
LookupTraida(traida, tabla, campo_buscar, valor_buscar, campo_retorno, cache) ==
    IF traida.st # "ok"
    THEN [val |-> NoneV, cache |-> cache, fetched |-> <<tabla>>]
    ELSE [val |-> BuscarEnTabla(traida.filas, campo_buscar, valor_buscar, campo_retorno),
          cache |-> CacheCon(cache, tabla, traida.filas),
          fetched |-> <<tabla>>]

\* _buscar_lookup that fetches the table on every call
_buscar_lookup_sin_cache(tabla, campo_buscar, valor_buscar, campo_retorno, cache) ==
    LookupTraida(get_tabla_lookup(tabla), tabla, campo_buscar, valor_buscar,
                 campo_retorno, cache)

\* _buscar_lookup that answers None on the call that fills the cache
_buscar_lookup_primera_none(tabla, campo_buscar, valor_buscar, campo_retorno, cache) ==
    IF tabla \in DOMAIN cache
    THEN [val |-> BuscarEnTabla(cache[tabla], campo_buscar, valor_buscar, campo_retorno),
          cache |-> cache, fetched |-> <<>>]
    ELSE [LookupTraida(get_tabla_lookup(tabla), tabla, campo_buscar, valor_buscar,
                       campo_retorno, cache) EXCEPT !.val = NoneV]

_buscar_lookup(tabla, campo_buscar, valor_buscar, campo_retorno, cache) ==
    IF tabla \in DOMAIN cache
    THEN [val |-> BuscarEnTabla(cache[tabla], campo_buscar, valor_buscar, campo_retorno),
          cache |-> cache, fetched |-> <<>>]
    ELSE LookupTraida(get_tabla_lookup(tabla), tabla, campo_buscar, valor_buscar,
                      campo_retorno, cache)

\* x > 0 for a Python value x
MayorQueCero(x) ==
    IF x.t = "int" THEN [st |-> "ok", val |-> IF x.n > 0 THEN "True" ELSE "False"]
    ELSE IF x.t = "null" THEN [st |-> "ok", val |-> "False"]
    ELSE IF x.t = "serie" THEN [st |-> "ok", val |-> "Serie"]
    ELSE [st |-> "TypeError", val |-> "False"]

ExprPositivo == "valor > 0"
ExprHermano == "c1 > 0"
ExprSerie == "fila == valor"
ExprLookupUF == "lookup('UF', 'COD', valor, 'VAL') is not None"
ExprLookupREG == "lookup('REG', 'COD', valor, 'NOM') is not None"
ExprLookupROTA == "lookup('ROTA', 'COD', valor, 'VAL') is None"
ExprEscribe == "df.__setitem__('C2', 0) is None"
ExprLookupSinCampo == "lookup('UF', 'COD', valor, 'NOM') is None"

\* the lookup(...) call of a rule text and the test made on its result
LlamadaLookup(expresion_py) ==
    IF expresion_py = ExprLookupUF
    THEN [tabla |-> "UF", retorno |-> "VAL", quiereValor |-> TRUE]
    ELSE IF expresion_py = ExprLookupREG
    THEN [tabla |-> "REG", retorno |-> "NOM", quiereValor |-> TRUE]
    ELSE IF expresion_py = ExprLookupSinCampo
    THEN [tabla |-> "UF", retorno |-> "NOM", quiereValor |-> FALSE]
    ELSE [tabla |-> "ROTA", retorno |-> "VAL", quiereValor |-> FALSE]

\* the assignment an expression made through the `df` of its context
SinEscritura == <<>>

Puro(r, cache) ==
    [st |-> r.st, val |-> r.val, cache |-> cache, fetched |-> <<>>,
     escribe |-> SinEscritura]

ConLookup(r, quiereValor) ==
    [st |-> "ok", val |-> IF (r.val # NoneV) = quiereValor THEN "True" ELSE "False",
     cache |-> r.cache, fetched |-> r.fetched, escribe |-> SinEscritura]

\* eval(expresion_py, {"__builtins__": {}}, contexto) for the rule texts of
\* the model: [st, val, cache, fetched, escribe]; val is "True", "False" or
\* "Serie" (a pandas Series, whose truth value is ambiguous).  'df' of the
\* context is the caller's DataFrame itself, so df.__setitem__ assigns a
\* column of the table and returns None.
EvalExpr(expresion_py, ctx, cache) ==
    IF expresion_py = ExprPositivo THEN Puro(MayorQueCero(ctx["valor"]), cache)
    ELSE IF expresion_py = ExprHermano
    THEN (IF "c1" \in DOMAIN ctx THEN Puro(MayorQueCero(ctx["c1"]), cache)
          ELSE Puro([st |-> "NameError", val |-> "False"], cache))
    ELSE IF expresion_py = ExprSerie THEN Puro([st |-> "ok", val |-> "Serie"], cache)
    ELSE IF expresion_py \in {ExprLookupUF, ExprLookupREG, ExprLookupROTA,
                               ExprLookupSinCampo}
    THEN ConLookup(_buscar_lookup(LlamadaLookup(expresion_py).tabla, "COD", ctx["valor"],
                                  LlamadaLookup(expresion_py).retorno, cache),
                   LlamadaLookup(expresion_py).quiereValor)
    ELSE IF expresion_py = ExprEscribe
    THEN [st |-> "ok", val |-> "True", cache |-> cache, fetched |-> <<>>,
          escribe |-> <<[columna |-> "C2", valor |-> IntV(0)]>>]
    ELSE Puro([st |-> "SyntaxError", val |-> "False"], cache)

\* the error entry with the 0-based row index
ErrorFila_base_cero(fila_idx, codigo_campo, codigo_validacion, texto) ==
    [fila |-> fila_idx, columna |-> codigo_campo, codigo |-> codigo_validacion,
     error |-> texto]

ErrorFila(fila_idx, codigo_campo, codigo_validacion, texto) ==
    [fila |-> fila_idx + 1, columna |-> codigo_campo, codigo |-> codigo_validacion,
     error |-> texto]

\* TrasEval with a failed evaluation taken as a pass
TrasEval_fallo_pasa(r, validacion, codigo_campo, fila_idx) ==
    [raised |-> "",
     error |-> IF r.st = "ok" /\ r.val = "False"
               THEN <<ErrorFila(fila_idx, codigo_campo, validacion.codigo_validacion,
                                <<validacion.mensaje_error>>)>>
               ELSE <<>>,
     cache |-> r.cache, fetched |-> r.fetched, evaluada |-> TRUE,
     escribe |-> r.escribe]

\* lines 172-193 of _ejecutar_validacion, r being what eval() gave
TrasEval(r, validacion, codigo_campo, fila_idx) ==
    [raised |-> "",
     error |-> IF r.st # "ok"
               THEN <<ErrorFila(fila_idx, codigo_campo, validacion.codigo_validacion,
                                <<"Error evaluando validacion", r.st>>)>>
               ELSE IF r.val = "Serie"
               THEN <<ErrorFila(fila_idx, codigo_campo, validacion.codigo_validacion,
                                <<"Error evaluando validacion", "ValueError">>)>>
               ELSE IF r.val = "False"
               THEN <<ErrorFila(fila_idx, codigo_campo, validacion.codigo_validacion,
                                <<validacion.mensaje_error>>)>>
               ELSE <<>>,
     cache |-> r.cache, fetched |-> r.fetched, evaluada |-> TRUE,
     escribe |-> r.escribe]

ConContexto(contexto, validacion, codigo_campo, fila_idx, cache) ==
    IF contexto.st # "ok"
    THEN [raised |-> contexto.st, error |-> <<>>, cache |-> cache,
          fetched |-> <<>>, evaluada |-> FALSE, escribe |-> SinEscritura]
    ELSE TrasEval(EvalExpr(validacion.expresion_py, contexto.ctx, cache),
                  validacion, codigo_campo, fila_idx)

\* [raised, error (none or one), cache, fetched, evaluada, escribe]
_ejecutar_validacion(validacion, codigo_campo, valor, fila_idx, tabla, cache) ==
    ConContexto(_preparar_contexto_validacion(valor, fila_idx, tabla, codigo_campo),
                validacion, codigo_campo, fila_idx, cache)

\* df[columna] = valor on the DataFrame: every row gets the value, a new
\* column goes last
Escribe(tabla, escribe) ==
    IF escribe = SinEscritura THEN tabla
    ELSE [columns |-> IF \E i \in 1..Len(tabla.columns) :
                             tabla.columns[i] = escribe[1].columna
                      THEN tabla.columns
                      ELSE Append(tabla.columns, escribe[1].columna),
          rows |-> [i \in 1..Len(tabla.rows) |->
                      [c \in DOMAIN tabla.rows[i] \cup {escribe[1].columna} |->
                          IF c = escribe[1].columna THEN escribe[1].valor
                          ELSE tabla.rows[i][c]]]]

\* lines 136-145 of _validar_campo_valor, r being what the rule gave
TrasRegla(r, validacion, codigo_campo, fila_idx, acc) ==
    [errores |-> acc.errores \o
                 (IF r.raised # ""
                  THEN <<ErrorFila(fila_idx, codigo_campo, validacion.codigo_validacion,
                                   <<"Error en validacion", r.raised>>)>>
                  ELSE r.error),
     cache |-> r.cache,
     evaluadas |-> IF r.evaluada
                   THEN acc.evaluadas \cup
                        {<<codigo_campo, validacion.codigo_validacion, fila_idx,
                           Cardinality(acc.evaluadas) + 1>>}
                   ELSE acc.evaluadas,
     consultas |-> acc.consultas \o r.fetched,
     tabla |-> Escribe(acc.tabla, r.escribe)]

\* the loop of _validar_campo_valor leaving at the first error of the cell
RECURSIVE ValidaReglas_corta(_, _, _, _, _, _)
ValidaReglas_corta(reglas, codigo_campo, valor, fila_idx, tabla, acc) ==
    IF reglas = <<>> \/ acc.errores # <<>> THEN acc
    ELSE ValidaReglas_corta(Tail(reglas), codigo_campo, valor, fila_idx, tabla,
             TrasRegla(_ejecutar_validacion(Head(reglas), codigo_campo, valor, fila_idx,
                                            acc.tabla, acc.cache),
                       Head(reglas), codigo_campo, fila_idx, acc))

\* the loop of _validar_campo_valor over validaciones_campo
RECURSIVE ValidaReglas(_, _, _, _, _, _)
ValidaReglas(reglas, codigo_campo, valor, fila_idx, tabla, acc) ==
    IF reglas = <<>> THEN acc
    ELSE ValidaReglas(Tail(reglas), codigo_campo, valor, fila_idx, tabla,
             TrasRegla(_ejecutar_validacion(Head(reglas), codigo_campo, valor, fila_idx,
                                            acc.tabla, acc.cache),
                       Head(reglas), codigo_campo, fila_idx, acc))

ReglasDe(validaciones, codigo_campo) ==
    IF \E i \in 1..Len(validaciones) : validaciones[i].campo = codigo_campo
    THEN validaciones[CHOOSE i \in 1..Len(validaciones) :
                          validaciones[i].campo = codigo_campo].reglas
    ELSE <<>>

\* errores of one cell, with the cache and the traces threaded through
_validar_campo_valor(codigo_campo, valor, fila_idx, tabla, validaciones, acc) ==
    ValidaReglas(ReglasDe(validaciones, codigo_campo), codigo_campo, valor, fila_idx,
                 tabla, [acc EXCEPT !.errores = <<>>, !.tabla = tabla])

_verificar_columnas_obligatorias(tabla, camposMeta) ==
    LET faltan == SelectSeq(camposMeta,
                     LAMBDA c : c.obligatorio /\ ~\E i \in 1..Len(tabla.columns) :
                                                     tabla.columns[i] = c.codigo)
    IN  [i \in 1..Len(faltan) |-> faltan[i].codigo]

EnColumnas(tabla, codigo) == \E i \in 1..Len(tabla.columns) : tabla.columns[i] = codigo

\* TrasCelda without line 93 (resultado["valido"] = False)
TrasCelda_sin_valido(r, codigo_campo, st) ==
    [st EXCEPT !.errores = @ \o r.errores,
               !.columnas_con_error = IF r.errores # <<>> THEN @ \cup {codigo_campo} ELSE @,
               !.cache = r.cache,
               !.evaluadas = r.evaluadas,
               !.consultas = r.consultas,
               !.tabla = r.tabla]

\* lines 90-93 of validar_dataframe, r being what the cell gave
TrasCelda(r, codigo_campo, st) ==
    [st EXCEPT !.errores = @ \o r.errores,
               !.columnas_con_error = IF r.errores # <<>> THEN @ \cup {codigo_campo} ELSE @,
               !.valido = IF r.errores # <<>> THEN FALSE ELSE @,
               !.cache = r.cache,
               !.evaluadas = r.evaluadas,
               !.consultas = r.consultas,
               !.tabla = r.tabla]

\* the rows fila_idx.. of one present field (validator.py lines 85-93);
\* serie is df[codigo_campo] as it was when the loop started, st.tabla the
\* DataFrame as it is now
RECURSIVE ValidaFilas(_, _, _, _, _)
ValidaFilas(codigo_campo, fila_idx, serie, validaciones, st) ==
    IF fila_idx >= Len(serie) THEN st
    ELSE ValidaFilas(codigo_campo, fila_idx + 1, serie, validaciones,
             TrasCelda(_validar_campo_valor(codigo_campo, serie[fila_idx + 1],
                                            fila_idx, st.tabla, validaciones,
                                            [errores |-> <<>>, cache |-> st.cache,
                                             evaluadas |-> st.evaluadas,
                                             consultas |-> st.consultas,
                                             tabla |-> st.tabla]),
                       codigo_campo, st))

\* df[codigo_campo]
ColumnaDe(tabla, codigo_campo) ==
    [i \in 1..Len(tabla.rows) |-> tabla.rows[i][codigo_campo]]

\* the rules of an absent field left without a record
Omitidas_ninguna(entrada) == <<>>

\* lines 76-81 of validar_dataframe: one entry per rule of the absent field
Omitidas(entrada) ==
    [i \in 1..Len(entrada.reglas) |->
        [columna |-> entrada.campo, codigo |-> entrada.reglas[i].codigo_validacion,
         motivo |-> "Columna no presente en el DataFrame"]]

\* one item of self.validaciones.items() (validator.py lines 73-93)
ValidaCampo(entrada, tabla, validaciones, st) ==
    IF ~EnColumnas(st.tabla, entrada.campo)
    THEN [st EXCEPT !.omitidas = @ \o Omitidas(entrada)]
    ELSE ValidaFilas(entrada.campo, 0, ColumnaDe(st.tabla, entrada.campo),
                     validaciones, st)

RECURSIVE ValidaCampos(_, _, _, _)
ValidaCampos(pendientes, tabla, validaciones, st) ==
    IF pendientes = <<>> THEN st
    ELSE ValidaCampos(Tail(pendientes), tabla, validaciones,
                      ValidaCampo(Head(pendientes), tabla, validaciones, st))

Estructurales(faltantes) ==
    [i \in 1..Len(faltantes) |->
        [fila |-> FilaNone, columna |-> faltantes[i], codigo |-> "OBLIGATORIO",
         error |-> <<"Columna obligatoria no esta presente", faltantes[i]>>]]

EstadoInicial(valido, errores, cache, tabla) ==
    [valido |-> valido, errores |-> errores, omitidas |-> <<>>,
     columnas_con_error |-> {}, cache |-> cache, evaluadas |-> {}, consultas |-> <<>>,
     tabla |-> tabla]

\* the report (lines 95-99) and what the call did to the validator
Devuelve(fin, tabla) ==
    [res |-> [valido |-> fin.valido, errores |-> fin.errores,
              total_filas |-> Len(tabla.rows), errores_totales |-> Len(fin.errores),
              columnas_con_error |-> fin.columnas_con_error,
              validaciones_omitidas |-> fin.omitidas],
     cache |-> fin.cache, evaluadas |-> fin.evaluadas, consultas |-> fin.consultas,
     tabla |-> fin.tabla]

ConFaltantes(faltantes, tabla, meta, cache) ==
    IF faltantes # <<>>
    THEN Devuelve(EstadoInicial(FALSE, Estructurales(faltantes), cache, tabla), tabla)
    ELSE Devuelve(ValidaCampos(meta.validaciones, tabla, meta.validaciones,
                               EstadoInicial(TRUE, <<>>, cache, tabla)), tabla)

\* validar_dataframe going on after the structural errors (no return at 68)
ConFaltantesSinRetorno(faltantes, tabla, meta, cache) ==
    Devuelve(ValidaCampos(meta.validaciones, tabla, meta.validaciones,
                          EstadoInicial(faltantes = <<>>, Estructurales(faltantes), cache,
                                        tabla)),
             tabla)

validar_dataframe_sin_retorno(tabla, meta, cache) ==
    ConFaltantesSinRetorno(_verificar_columnas_obligatorias(tabla, meta.campos),
                           tabla, meta, cache)

\* [res, cache, evaluadas, consultas, tabla]: the report, what the call did
\* to the validator and the DataFrame as the call leaves it
validar_dataframe(tabla, meta, cache) ==
    ConFaltantes(_verificar_columnas_obligatorias(tabla, meta.campos), tabla, meta, cache)

(***************************************************************************)
(* Inputs of the validator: the store's rows and the table.                *)
(***************************************************************************)
ReglasBD ==
    <<[campo_id |-> 1, codigo_validacion |-> "V1", expresion_py |-> ExprPositivo,
       mensaje_error |-> "Debe ser mayor que cero"],
      [campo_id |-> 1, codigo_validacion |-> "V2", expresion_py |-> ExprLookupUF,
       mensaje_error |-> "Codigo sin UF"],
      [campo_id |-> 1, codigo_validacion |-> "V3", expresion_py |-> ExprLookupROTA,
       mensaje_error |-> "Codigo en lista"],
      [campo_id |-> 1, codigo_validacion |-> "V3W", expresion_py |-> ExprEscribe,
       mensaje_error |-> "Sin segunda columna"],
      [campo_id |-> 2, codigo_validacion |-> "V4", expresion_py |-> ExprHermano,
       mensaje_error |-> "C1 debe ser positivo"],
      [campo_id |-> 2, codigo_validacion |-> "V5", expresion_py |-> ExprLookupREG,
       mensaje_error |-> "Region desconocida"],
      [campo_id |-> 2, codigo_validacion |-> "V6", expresion_py |-> ExprSerie,
       mensaje_error |-> "Fila distinta"],
      [campo_id |-> 2, codigo_validacion |-> "V7", expresion_py |-> ExprLookupSinCampo,
       mensaje_error |-> "UF con nombre"]>>

\* the VALIDACIONES rows with their ACTIVA flags (ORDER BY CAMPO_ID, CODIGO)
FilasValidaciones(activas) ==
    [i \in 1..Len(ReglasBD) |->
        [campo_id |-> ReglasBD[i].campo_id,
         codigo_validacion |-> ReglasBD[i].codigo_validacion,
         expresion_py |-> ReglasBD[i].expresion_py,
         mensaje_error |-> ReglasBD[i].mensaje_error,
         activa |-> i \in activas]]

BasesDeDatos ==
    {[campos |-> <<[codigo |-> "C1", campo_id |-> 1, obligatorio |-> o1],
                   [codigo |-> "C2", campo_id |-> 2, obligatorio |-> o2]>>,
      validaciones |-> FilasValidaciones(a)] :
        o1 \in BOOLEAN, o2 \in BOOLEAN,
        a \in {x \in SUBSET (1..Len(ReglasBD)) : Cardinality(x) <= MaxActivas}}

ValoresVal == {IntV(-100), IntV(5), StrV(<<" ">>)}

ColumnasTabla ==
    {<<"C1">>, <<"C1", "C2">>, <<"C2">>, <<"C1", "#7">>, <<"#7">>, <<"C1", "VALOR">>}

FilaTabla(cols, v) ==
    [c \in {cols[i] : i \in 1..Len(cols)} |->
        IF c = "C1" THEN v ELSE IF c = "C2" THEN IntV(5) ELSE IntV(0)]

ColumnaC1 == UNION {[1..n -> ValoresVal] : n \in 0..MaxFilas}

Tablas ==
    {[columns |-> cols, rows |-> [i \in 1..Len(c1) |-> FilaTabla(cols, c1[i])]] :
        cols \in ColumnasTabla, c1 \in ColumnaC1}

InitVal ==
    /\ \E bd \in BasesDeDatos :
          valMeta = [bd |-> bd,
                     campos |-> get_metadata_completa(bd).campos,
                     validaciones |-> get_metadata_completa(bd).validaciones]
    /\ df \in Tablas
    /\ lookupCache = <<>>
    /\ resultado = <<>>
    /\ previo = <<>>
    /\ evaluadas = {}
    /\ consultas = <<>>
    /\ EncReposo
    /\ SecReposo
    /\ FmtReposo
    /\ DisReposo
    /\ AlmReposo

Retorna(r) ==
    /\ df' = r.tabla
    /\ previo' = resultado
    /\ resultado' = <<r.res>>
    /\ lookupCache' = r.cache
    /\ evaluadas' = r.evaluadas
    /\ consultas' = r.consultas

ValidarDataframe ==
    /\ Retorna(validar_dataframe(df, valMeta, lookupCache))
    /\ UNCHANGED <<valMeta, fueraDeVal>>

NextVal == ValidarDataframe

SpecVal == InitVal /\ [][NextVal]_vars

LongitudesPositivas == \A i \in 1..Len(campos) : campos[i].info.longitud > 0

\* C1: for a metadata whose fields all have longitud > 0, every line that
\* _generar_linea produces, also from null, blank or missing values, is
\* exactly sum(longitud) characters long.
C1_LongitudLinea ==
    (linea.st = "ok" /\ LongitudesPositivas) => Len(linea.txt) = SumaLongitudes(campos)

\* two fields of positive length, a null cell and a missing column, a line
C1_Witness ==
    /\ linea.st = "ok"
    /\ Len(campos) = 2
    /\ LongitudesPositivas
    /\ DOMAIN fila = {"C1"}
    /\ fila["C1"] = Null
    /\ Len(linea.txt) = SumaLongitudes(campos)

(***************************************************************************)
(* GeneratorCompuesta and the composite branch of DJDispatcher.            *)
(***************************************************************************)
MaxFilasSec == 2

\* sorted() on the section names of the model
OrdenSecciones == <<"A", "B", "X">>

Claves(dataframes_secciones) ==
    {dataframes_secciones[i].nombre : i \in 1..Len(dataframes_secciones)}

DfDe(dataframes_secciones, seccion) ==
    dataframes_secciones[CHOOSE i \in 1..Len(dataframes_secciones) :
                             dataframes_secciones[i].nombre = seccion].df

\* the set of declared sections (fields with an empty seccion declare none)
SeccionesDeclaradas(camposMeta) ==
    {camposMeta[i].seccion : i \in 1..Len(camposMeta)} \ {""}

_obtener_secciones(camposMeta) ==
    SelectSeq(OrdenSecciones, LAMBDA x : x \in SeccionesDeclaradas(camposMeta))

\* the codes of the fields of a section (the order by posicion is not used
\* by the structure check, which compares sets)
CamposDeSeccion(camposMeta, seccion) ==
    {camposMeta[i].codigo : i \in {j \in 1..Len(camposMeta) : camposMeta[j].seccion = seccion}}

ColsDe(tabla) == {tabla.columns[i] : i \in 1..Len(tabla.columns)}

\* the row-count check comparing nothing
ChequeaFilas_sin_comparar(entrada, ref, res) == res

\* the row-count check of one section (lines 193-200), ref = <<>> or <<n>>
ChequeaFilas(entrada, ref, res) ==
    IF ref # <<>> /\ Len(entrada.df.rows) # ref[1]
    THEN [res EXCEPT !.valido = FALSE,
                     !.errores = Append(@, [tipo |-> "filas", seccion |-> entrada.nombre,
                                            filas |-> Len(entrada.df.rows),
                                            esperadas |-> ref[1], columnas |-> {}])]
    ELSE res

\* the column check of one section (lines 203-216)
ChequeaColumnas(entrada, camposMeta, res) ==
    IF entrada.nombre \notin SeccionesDeclaradas(camposMeta) THEN res
    ELSE [res EXCEPT
            !.errores =
                IF CamposDeSeccion(camposMeta, entrada.nombre) \ ColsDe(entrada.df) # {}
                THEN Append(@, [tipo |-> "columnas", seccion |-> entrada.nombre,
                                filas |-> 0, esperadas |-> 0,
                                columnas |-> CamposDeSeccion(camposMeta, entrada.nombre)
                                             \ ColsDe(entrada.df)])
                ELSE @,
            !.advertencias =
                IF ColsDe(entrada.df) \ CamposDeSeccion(camposMeta, entrada.nombre) # {}
                THEN Append(@, [tipo |-> "columnas extra", seccion |-> entrada.nombre,
                                columnas |-> ColsDe(entrada.df)
                                             \ CamposDeSeccion(camposMeta, entrada.nombre)])
                ELSE @]

\* the loop over dataframes_secciones.items() (lines 184-222)
RECURSIVE ValidaSecciones(_, _, _, _)
ValidaSecciones(pendientes, ref, camposMeta, res) ==
    IF pendientes = <<>> THEN res
    ELSE ValidaSecciones(Tail(pendientes),
                         IF ref = <<>> THEN <<Len(Head(pendientes).df.rows)>> ELSE ref,
                         camposMeta,
                         ChequeaColumnas(Head(pendientes), camposMeta,
                                         ChequeaFilas(Head(pendientes), ref, res)))

\* the structure check looking at the declared sections only
validar_estructura_solo_declaradas(dataframes_secciones, camposMeta) ==
    ValidaSecciones(SelectSeq(dataframes_secciones,
                              LAMBDA e : e.nombre \in SeccionesDeclaradas(camposMeta)),
                    <<>>, camposMeta,
        [valido |-> SeccionesDeclaradas(camposMeta) \ Claves(dataframes_secciones) = {},
         errores |-> <<>>,
         advertencias |->
            IF Claves(dataframes_secciones) \ SeccionesDeclaradas(camposMeta) # {}
            THEN <<[tipo |-> "secciones no esperadas", seccion |-> "",
                    columnas |-> Claves(dataframes_secciones)
                                 \ SeccionesDeclaradas(camposMeta)]>>
            ELSE <<>>])

validar_estructura_secciones(dataframes_secciones, camposMeta) ==
    ValidaSecciones(dataframes_secciones, <<>>, camposMeta,
        [valido |-> SeccionesDeclaradas(camposMeta) \ Claves(dataframes_secciones) = {},
         errores |->
            IF SeccionesDeclaradas(camposMeta) \ Claves(dataframes_secciones) # {}
            THEN <<[tipo |-> "faltan", seccion |-> "", filas |-> 0, esperadas |-> 0,
                    columnas |-> SeccionesDeclaradas(camposMeta)
                                 \ Claves(dataframes_secciones)]>>
            ELSE <<>>,
         advertencias |->
            IF Claves(dataframes_secciones) \ SeccionesDeclaradas(camposMeta) # {}
            THEN <<[tipo |-> "secciones no esperadas", seccion |-> "",
                    columnas |-> Claves(dataframes_secciones)
                                 \ SeccionesDeclaradas(camposMeta)]>>
            ELSE <<>>])

\* the first section whose row count differs from the first one's, 0 if none
PrimeraDistinta(dataframes_secciones) ==
    IF \E i \in 1..Len(dataframes_secciones) :
           Len(dataframes_secciones[i].df.rows) # Len(dataframes_secciones[1].df.rows)
    THEN CHOOSE i \in 1..Len(dataframes_secciones) :
           /\ Len(dataframes_secciones[i].df.rows) # Len(dataframes_secciones[1].df.rows)
           /\ \A j \in 1..(i - 1) :
                 Len(dataframes_secciones[j].df.rows) = Len(dataframes_secciones[1].df.rows)
    ELSE 0

\* the cell of the row labelled `etiqueta`, NaN when the table has no such row
CeldaDe(tabla, etiqueta, c) ==
    IF \E k \in 1..Len(tabla.index) : tabla.index[k] = etiqueta
    THEN tabla.rows[CHOOSE k \in 1..Len(tabla.index) : tabla.index[k] = etiqueta][c]
    ELSE Null

\* pd.concat(dataframes_ordenados, axis=1): the rows are matched by their
\* index labels (outer join), not by their place; a label that a table
\* lacks gives NaN in the columns of that table
RECURSIVE ConcatColumnas(_)
ConcatColumnas(tablas) ==
    IF Len(tablas) = 1 THEN tablas[1]
    ELSE LET izq == ConcatColumnas(SubSeq(tablas, 1, Len(tablas) - 1))
             der == tablas[Len(tablas)]
             etiquetas ==
                 izq.index \o SelectSeq(der.index,
                                  LAMBDA e : \A k \in 1..Len(izq.index) : izq.index[k] # e)
         IN  [columns |-> izq.columns \o der.columns,
              index |-> etiquetas,
              rows |-> [i \in 1..Len(etiquetas) |->
                          [c \in ColsDe(izq) \cup ColsDe(der) |->
                              IF c \in ColsDe(der) THEN CeldaDe(der, etiquetas[i], c)
                              ELSE CeldaDe(izq, etiquetas[i], c)]]]

SinTabla == [columns |-> <<>>, index |-> <<>>, rows |-> <<>>]

Falla(tipo, seccion) ==
    [st |-> "ValueError", motivo |-> tipo, seccion |-> seccion, df |-> SinTabla]

_consolidar_por_concatenacion(dataframes_secciones, camposMeta) ==
    IF PrimeraDistinta(dataframes_secciones) # 0
    THEN Falla("filas", dataframes_secciones[PrimeraDistinta(dataframes_secciones)].nombre)
    ELSE IF SelectSeq(_obtener_secciones(camposMeta),
                      LAMBDA x : x \in Claves(dataframes_secciones)) = <<>>
    THEN Falla("No objects to concatenate", "")
    ELSE [st |-> "ok", motivo |-> "", seccion |-> "",
          df |-> ConcatColumnas(
                    [i \in 1..Len(SelectSeq(_obtener_secciones(camposMeta),
                                     LAMBDA x : x \in Claves(dataframes_secciones))) |->
                        DfDe(dataframes_secciones,
                             SelectSeq(_obtener_secciones(camposMeta),
                                 LAMBDA x : x \in Claves(dataframes_secciones))[i])])]

\* consolidar_dataframes without the check of lines 48-50
consolidar_dataframes_sin_chequeo(dataframes_secciones, camposMeta) ==
    _consolidar_por_concatenacion(dataframes_secciones, camposMeta)

consolidar_dataframes(dataframes_secciones, camposMeta) ==
    IF SeccionesDeclaradas(camposMeta) \ Claves(dataframes_secciones) # {}
    THEN Falla("faltan", "")
    ELSE _consolidar_por_concatenacion(dataframes_secciones, camposMeta)

\* the metadata the dispatcher hands to DJValidator for a composite DJ
MetaContenido(camposMeta) ==
    [campos |-> [i \in 1..Len(camposMeta) |->
                    [codigo |-> camposMeta[i].codigo, campo_id |-> i,
                     obligatorio |-> camposMeta[i].obligatorio]],
     validaciones |-> <<>>]

\* lines 202-222 of _validar_datos, given the structure report
TrasEstructura(validacion_estructura, datos, camposMeta) ==
    IF validacion_estructura.valido
    THEN (IF consolidar_dataframes(datos, camposMeta).st # "ok"
          THEN [st |-> "ValueError", consolido |-> TRUE, contenido |-> FALSE,
                valido |-> FALSE, errores |-> <<>>]
          ELSE [st |-> "ok", consolido |-> TRUE, contenido |-> TRUE,
                valido |-> validar_dataframe(consolidar_dataframes(datos, camposMeta).df,
                                             MetaContenido(camposMeta), <<>>).res.valido,
                errores |-> validar_dataframe(consolidar_dataframes(datos, camposMeta).df,
                                              MetaContenido(camposMeta), <<>>).res.errores])
    ELSE [st |-> "ok", consolido |-> FALSE, contenido |-> FALSE, valido |-> FALSE,
          errores |-> validacion_estructura.errores]

\* DJDispatcher._validar_datos for a composite DJ
_validar_datos(datos, camposMeta) ==
    TrasEstructura(validar_estructura_secciones(datos, camposMeta), datos, camposMeta)

(***************************************************************************)
(* Inputs of the consolidator.                                             *)
(***************************************************************************)
MetasSecciones ==
    {<<[codigo |-> "C1", seccion |-> s1, posicion |-> 1, obligatorio |-> TRUE],
       [codigo |-> "C2", seccion |-> s2, posicion |-> 2, obligatorio |-> FALSE]>> :
        s1 \in {"A", "B", ""}, s2 \in {"A", "B", ""}}

\* a section table with the default index 0..n-1: its cells tell section,
\* column and row apart
TablaSeccion(nombre, cols, n) ==
    [columns |-> cols,
     index |-> [i \in 1..n |-> i - 1],
     rows |-> [i \in 1..n |-> [c \in {cols[k] : k \in 1..Len(cols)} |->
                                  StrV(<<nombre, c, Digits[i + 1]>>)]]]

\* the table with its first row dropped by the caller: labels 1..n-1
SinPrimeraFila(tabla) ==
    [columns |-> tabla.columns, index |-> Tail(tabla.index), rows |-> Tail(tabla.rows)]

EntradasSeccion(nombre) ==
    {[nombre |-> nombre, df |-> TablaSeccion(nombre, cols, n)] :
        cols \in {<<"C1">>, <<"C2">>}, n \in 0..MaxFilasSec}

MapasSecciones ==
    {<<>>}
    \cup UNION {{<<e>> : e \in EntradasSeccion(a)} : a \in {"A", "B", "X"}}
    \cup UNION {{<<e, f>> : e \in EntradasSeccion(a), f \in EntradasSeccion(b)} :
                  <<a, b>> \in {p \in {"A", "B", "X"} \X {"A", "B", "X"} : p[1] # p[2]}}
    \cup UNION {{<<e, f, g>> : e \in EntradasSeccion(p[1]), f \in EntradasSeccion(p[2]),
                               g \in EntradasSeccion(p[3])} :
                  p \in {q \in {"A", "B", "X"} \X {"A", "B", "X"} \X {"A", "B", "X"} :
                            q[1] # q[2] /\ q[1] # q[3] /\ q[2] # q[3]}}

\* sections A and B where the caller dropped the first row of B
MapasFiltrados ==
    {<<e, [nombre |-> "B", df |-> SinPrimeraFila(TablaSeccion("B", cols, n))]>> :
        e \in EntradasSeccion("A"), cols \in {<<"C1">>, <<"C2">>}, n \in 1..MaxFilasSec}

InitSec ==
    /\ secMeta \in MetasSecciones
    /\ secDatos \in MapasSecciones \cup MapasFiltrados
    /\ estructura = <<>>
    /\ consolidado = <<>>
    /\ despacho = <<>>
    /\ EncReposo
    /\ ValReposo
    /\ FmtReposo
    /\ DisReposo
    /\ AlmReposo

ValidarEstructuraSecciones ==
    /\ estructura' = <<validar_estructura_secciones(secDatos, secMeta)>>
    /\ UNCHANGED <<secMeta, secDatos, consolidado, despacho, fueraDeSec>>

ConsolidarDataframes ==
    /\ consolidado' = <<consolidar_dataframes(secDatos, secMeta)>>
    /\ UNCHANGED <<secMeta, secDatos, estructura, despacho, fueraDeSec>>

ValidarDatos ==
    /\ despacho' = <<_validar_datos(secDatos, secMeta)>>
    /\ UNCHANGED <<secMeta, secDatos, estructura, consolidado, fueraDeSec>>

NextSec == ValidarEstructuraSecciones \/ ConsolidarDataframes \/ ValidarDatos

SpecSec == InitSec /\ [][NextSec]_vars

(***************************************************************************)
(* The validation report.                                                  *)
(***************************************************************************)
HayReporte == resultado # <<>>

Reporte == resultado[1]

Columnas == {df.columns[i] : i \in 1..Len(df.columns)}

ObligatoriasFaltantes ==
    {valMeta.campos[i].codigo : i \in {j \in 1..Len(valMeta.campos) :
        valMeta.campos[j].obligatorio /\ valMeta.campos[j].codigo \notin Columnas}}

ErroresDe(col, cod, fila_num) ==
    {j \in 1..Len(Reporte.errores) :
        /\ Reporte.errores[j].columna = col
        /\ Reporte.errores[j].codigo = cod
        /\ Reporte.errores[j].fila = fila_num}

\* the (field, rule, 0-based row) cells the validator has to look at
Celdas ==
    {<<i, k, idx>> \in (1..Len(valMeta.validaciones)) \X (1..Len(ReglasBD))
                       \X (0..(Len(df.rows) - 1)) :
        /\ k <= Len(valMeta.validaciones[i].reglas)
        /\ valMeta.validaciones[i].campo \in Columnas}

CampoDe(c) == valMeta.validaciones[c[1]].campo

ReglaDe(c) == valMeta.validaciones[c[1]].reglas[c[2]]

\* what eval() gives for the cell, "contexto" when the context cannot be built
EvalCelda(c) ==
    LET valor == df.rows[c[3] + 1][CampoDe(c)]
        contexto == _preparar_contexto_validacion(valor, c[3], df, CampoDe(c))
    IN  IF contexto.st # "ok" THEN [st |-> "contexto", val |-> "False"]
        ELSE LET r == EvalExpr(ReglaDe(c).expresion_py, contexto.ctx, lookupCache)
             IN  [st |-> r.st, val |-> r.val]

\* C2: with a required column missing the report is invalid, holds exactly
\* one structural error (fila = None) per missing required column and no
\* row-level error, whatever the number of rows, and no rule was evaluated,
\* no lookup made and no rule recorded as skipped.
C2_ColumnaObligatoriaFaltante ==
    (HayReporte /\ ObligatoriasFaltantes # {}) =>
        /\ Reporte.valido = FALSE
        /\ Len(Reporte.errores) = Cardinality(ObligatoriasFaltantes)
        /\ \A col \in ObligatoriasFaltantes :
              Cardinality(ErroresDe(col, "OBLIGATORIO", FilaNone)) = 1
        /\ \A j \in 1..Len(Reporte.errores) : Reporte.errores[j].fila = FilaNone
        /\ evaluadas = {}
        /\ consultas = <<>>
        /\ Reporte.validaciones_omitidas = <<>>

\* two required columns missing from a table of several rows, with rules
C2_Witness ==
    /\ HayReporte
    /\ Cardinality(ObligatoriasFaltantes) = 2
    /\ Len(df.rows) >= 2
    /\ valMeta.validaciones # <<>>
    /\ Len(Reporte.errores) = 2

\* C3: a rule of a present field that evaluates to false on the value of
\* the row with 0-based index i gives exactly one error for that row and
\* rule, with fila = i + 1, the field code, the rule code and the rule's
\* message.
C3_ReglaFalsa ==
    (HayReporte /\ ObligatoriasFaltantes = {}) =>
        \A c \in Celdas :
            (EvalCelda(c).st = "ok" /\ EvalCelda(c).val = "False") =>
                /\ Cardinality(ErroresDe(CampoDe(c), ReglaDe(c).codigo_validacion,
                                         c[3] + 1)) = 1
                /\ \A j \in ErroresDe(CampoDe(c), ReglaDe(c).codigo_validacion, c[3] + 1) :
                      Reporte.errores[j].error = <<ReglaDe(c).mensaje_error>>

\* `valor > 0` on -100 in the third row: one error with fila = 3
C3_Witness ==
    /\ HayReporte
    /\ Len(df.rows) = 3
    /\ df.columns = <<"C1">>
    /\ df.rows[3]["C1"] = IntV(-100)
    /\ df.rows[1]["C1"] = IntV(5)
    /\ \E j \in 1..Len(Reporte.errores) :
          Reporte.errores[j] = [fila |-> 3, columna |-> "C1", codigo |-> "V1",
                                error |-> <<"Debe ser mayor que cero">>]

\* C4: a rule whose evaluation throws, or gives a result with no truth
\* value, leaves a row-level error for the cell (1-based row, field code,
\* rule code, evaluation-failure message) and an invalid report.
C4_FalloDeEvaluacion ==
    (HayReporte /\ ObligatoriasFaltantes = {}) =>
        \A c \in Celdas :
            (EvalCelda(c).st \notin {"ok", "contexto"} \/
             (EvalCelda(c).st = "ok" /\ EvalCelda(c).val = "Serie")) =>
                /\ Reporte.valido = FALSE
                /\ Cardinality(ErroresDe(CampoDe(c), ReglaDe(c).codigo_validacion,
                                         c[3] + 1)) = 1
                /\ \A j \in ErroresDe(CampoDe(c), ReglaDe(c).codigo_validacion, c[3] + 1) :
                      Reporte.errores[j].error[1] = "Error evaluando validacion"

\* a TypeError (a text compared with 0) reported for the second row
C4_Witness ==
    /\ HayReporte
    /\ \E j \in 1..Len(Reporte.errores) :
          Reporte.errores[j] = [fila |-> 2, columna |-> "C1", codigo |-> "V1",
                                error |-> <<"Error evaluando validacion", "TypeError">>]
    /\ \E j \in 1..Len(Reporte.errores) :
          Reporte.errores[j].error = <<"Error evaluando validacion", "ValueError">>

\* C5 (the claim as stated): a lookup whose fetch raised during the call
\* ends up as an entry of the returned report.
C5_FalloDeLookupEnReporte ==
    (HayReporte /\ \E i \in 1..Len(consultas) : get_tabla_lookup(consultas[i]).st # "ok")
        => Reporte.errores # <<>>

\* C6: the report is valid exactly when its error list is empty, and
\* errores_totales is the number of its entries.
C6_ValidoSiSinErrores ==
    HayReporte =>
        /\ Reporte.valido = (Reporte.errores = <<>>)
        /\ Reporte.errores_totales = Len(Reporte.errores)

\* an invalid report made of row-level errors only
C6_Witness ==
    /\ HayReporte
    /\ Reporte.valido = FALSE
    /\ Len(Reporte.errores) >= 2
    /\ \A j \in 1..Len(Reporte.errores) : Reporte.errores[j].fila # FilaNone

\* C7: a second validar_dataframe on the same validator, table and metadata
\* returns the report of the first, whatever the lookup cache holds by then.
C7_MismoReporte == previo # <<>> => previo = resultado

\* a second call that found two tables in the cache and reported errors
C7_Witness ==
    /\ previo # <<>>
    /\ DOMAIN lookupCache = {"UF", "REG"}
    /\ consultas = <<>>
    /\ Reporte.errores # <<>>

InactivasBD ==
    {valMeta.bd.validaciones[i].codigo_validacion :
        i \in {j \in 1..Len(valMeta.bd.validaciones) : ~valMeta.bd.validaciones[j].activa}}

\* C8: a rule whose ACTIVA flag is false is not evaluated and gives neither
\* an error nor a skipped-rule entry.
C8_InactivasFuera ==
    HayReporte =>
        \A cod \in InactivasBD :
            /\ \A e \in evaluadas : e[2] # cod
            /\ \A j \in 1..Len(Reporte.errores) : Reporte.errores[j].codigo # cod
            /\ \A j \in 1..Len(Reporte.validaciones_omitidas) :
                  Reporte.validaciones_omitidas[j].codigo # cod

\* an inactive rule and an evaluated active rule on the same present field,
\* and an inactive rule of an absent field
C8_Witness ==
    /\ HayReporte
    /\ "V1" \in InactivasBD
    /\ "V4" \in InactivasBD
    /\ df.columns = <<"C1">>
    /\ \E e \in evaluadas : e[2] = "V2"
    /\ Reporte.validaciones_omitidas # <<>>

(***************************************************************************)
(* Section consolidation.                                                  *)
(***************************************************************************)
FilasDe(i) == Len(secDatos[i].df.rows)

FilasDispares == \E i \in 1..Len(secDatos) : FilasDe(i) # FilasDe(1)

Faltantes == SeccionesDeclaradas(secMeta) \ Claves(secDatos)

\* C9: when the supplied section tables do not all have the same number of
\* rows, the structure report is invalid and holds an error naming a section
\* whose row count differs from the first observed one, consolidar_dataframes
\* raises instead of returning a table, and _validar_datos neither
\* consolidates nor validates the content.
C9_FilasDispares ==
    FilasDispares =>
        /\ estructura # <<>> =>
              /\ ~estructura[1].valido
              /\ \E k \in 1..Len(estructura[1].errores) :
                    /\ estructura[1].errores[k].tipo = "filas"
                    /\ estructura[1].errores[k].esperadas = FilasDe(1)
                    /\ \E i \in 1..Len(secDatos) :
                          /\ secDatos[i].nombre = estructura[1].errores[k].seccion
                          /\ FilasDe(i) = estructura[1].errores[k].filas
                          /\ FilasDe(i) # FilasDe(1)
        /\ consolidado # <<>> =>
              consolidado[1].st # "ok" /\ consolidado[1].df = SinTabla
        /\ despacho # <<>> =>
              /\ ~despacho[1].consolido
              /\ ~despacho[1].contenido
              /\ ~despacho[1].valido

C9_Witness ==
    /\ Len(secDatos) = 2
    /\ secDatos[1].nombre = "A" /\ FilasDe(1) = 2
    /\ secDatos[2].nombre = "B" /\ FilasDe(2) = 1
    /\ Faltantes = {}
    /\ SeccionesDeclaradas(secMeta) = {"A", "B"}
    /\ estructura # <<>> /\ consolidado # <<>> /\ despacho # <<>>
    /\ consolidado[1].motivo = "filas" /\ consolidado[1].seccion = "B"

\* C10: consolidar_dataframes raises, and returns no table, when a section
\* declared in the metadata is absent from the supplied map; when every
\* declared section is present it does not raise for a missing section.
C10_SeccionFaltante ==
    consolidado # <<>> =>
        /\ Faltantes # {} =>
              /\ consolidado[1].st = "ValueError"
              /\ consolidado[1].motivo = "faltan"
              /\ consolidado[1].df = SinTabla
        /\ Faltantes = {} => consolidado[1].motivo # "faltan"

C10_Witness ==
    /\ consolidado # <<>>
    /\ Faltantes = {"B"}
    /\ Len(secDatos) = 2
    /\ ~FilasDispares
    /\ FilasDe(1) = 2
    /\ consolidado[1].st = "ValueError"

\* C11 (as stated): in the structure report a section that lacks a column
\* declared for it makes the report invalid, so the report is never valid
\* with a non-empty error list.
C11_ColumnaFaltanteInvalida ==
    estructura # <<>> =>
        /\ estructura[1].errores # <<>> => ~estructura[1].valido
        /\ \A i \in 1..Len(secDatos) :
              (/\ secDatos[i].nombre \in SeccionesDeclaradas(secMeta)
               /\ CamposDeSeccion(secMeta, secDatos[i].nombre) \ ColsDe(secDatos[i].df) # {})
                  => ~estructura[1].valido

(***************************************************************************)
(* Single calls of the formatters of GeneratorSimple.                      *)
(***************************************************************************)
MaxAncho == 8
MaxDecimalesFmt == 2

T(a, b, c, d, e) == <<a, b, c, d, e>>

Textos ==
    {<<>>, <<"7">>, <<"1", "2", "3", "4", "5">>, <<"1", ".", "2", "5">>, <<"-", "1", "2">>,
     <<"1", "2", "3", "4", ".", "5">>,
     <<" ", "a", "b", " ">>,
     T("a", "b", "c", "d", "e") \o T("f", "g", "h", "i", "j"),
     T("2", "0", "2", "4", "-") \o T("0", "3", "-", "1", "5"),
     T("1", "5", "/", "0", "3") \o T("/", "2", "0", "2", "4"),
     T("1", "5", "-", "0", "3") \o T("-", "2", "0", "2", "4"),
     T("2", "0", "2", "4", "/") \o T("0", "3", "/", "1", "5"),
     T("2", "0", "2", "4", "-") \o T("0", "3", "-", "1", "5") \o <<"x">>,
     T("1", "5", "/", "0", "3") \o T("/", "2", "0", "2", "4") \o <<"x">>,
     T("1", "5", "-", "0", "3") \o T("-", "2", "0", "2", "4") \o <<"x">>}

\* RELLENO: one character, an empty text, or more than one character
RellenosFmt == {<<"*">>, <<>>, <<"a", "b">>}

Llamadas ==
    [valor_str : Textos, decimales : 0..MaxDecimalesFmt, longitud : 0..MaxAncho,
     relleno : RellenosFmt, alineacion : Alineaciones]

Retorno(fn, r) == <<[fn |-> fn, st |-> r.st, txt |-> r.txt]>>

InitFmt ==
    /\ llamada \in Llamadas
    /\ retorno = <<>>
    /\ EncReposo
    /\ ValReposo
    /\ SecReposo
    /\ DisReposo
    /\ AlmReposo

AplicarAlineacion ==
    /\ retorno' = Retorno("_aplicar_alineacion",
                          Ok(_aplicar_alineacion(llamada.valor_str, llamada.longitud,
                                                 llamada.relleno, llamada.alineacion)))
    /\ UNCHANGED <<llamada, fueraDeFmt>>

FormatearNumerico ==
    /\ retorno' = Retorno("_formatear_numerico",
                          _formatear_numerico(llamada.valor_str, llamada.decimales,
                                              llamada.longitud, llamada.relleno,
                                              llamada.alineacion))
    /\ UNCHANGED <<llamada, fueraDeFmt>>

FormatearDecimal ==
    /\ retorno' = Retorno("_formatear_decimal",
                          _formatear_decimal(llamada.valor_str, llamada.decimales,
                                             llamada.longitud, llamada.relleno,
                                             llamada.alineacion))
    /\ UNCHANGED <<llamada, fueraDeFmt>>

FormatearFecha ==
    /\ retorno' = Retorno("_formatear_fecha",
                          _formatear_fecha(llamada.valor_str, llamada.longitud,
                                           llamada.relleno, llamada.alineacion))
    /\ UNCHANGED <<llamada, fueraDeFmt>>

FormatearTexto ==
    /\ retorno' = Retorno("_formatear_texto",
                          _formatear_texto(llamada.valor_str, llamada.longitud,
                                           llamada.relleno, llamada.alineacion))
    /\ UNCHANGED <<llamada, fueraDeFmt>>

NextFmt ==
    \/ AplicarAlineacion
    \/ FormatearNumerico
    \/ FormatearDecimal
    \/ FormatearFecha
    \/ FormatearTexto

SpecFmt == InitFmt /\ [][NextFmt]_vars

Hecha(fn) == retorno # <<>> /\ retorno[1].fn = fn

Doce345 == <<"1", "2", "3", "4", "5">>

\* C12 (as stated): 12345 encoded as DECIMAL with decimales 2 and longitud 8
\* is "00123450".
C12_Decimal00123450 ==
    (/\ Hecha("_formatear_decimal")
     /\ llamada.valor_str = Doce345 /\ llamada.decimales = 2 /\ llamada.longitud = 8)
        => retorno[1].txt = <<"0", "0", "1", "2", "3", "4", "5", "0">>

\* C12 (amended): a non-negative decimal text with at most `decimales`
\* fraction digits, whose digits fit in the field, is encoded as its value
\* times 10^decimales, zero-filled to `longitud` digits, so reading the field
\* with the point `decimales` digits from the right gives the value back;
\* 12345 with decimales 2 and longitud 8 is "01234500", read back as 12345.00,
\* and it is 1234.5 that gives "00123450".
C12_DecimalIdaYVuelta ==
    Hecha("_formatear_decimal") =>
        /\ (/\ PyFloat(llamada.valor_str).k = "fin"
            /\ ~PyFloat(llamada.valor_str).neg
            /\ llamada.decimales > 0
            /\ PyFloat(llamada.valor_str).frac <= llamada.decimales
            /\ Len(NatStr(PyFloat(llamada.valor_str).mant
                          \div Pow10(PyFloat(llamada.valor_str).frac)))
                 + llamada.decimales <= llamada.longitud)
              => /\ retorno[1].st = "ok"
                 /\ Len(retorno[1].txt) = llamada.longitud
                 /\ AllDigits(retorno[1].txt)
                 /\ NatOf(retorno[1].txt) =
                       PyFloat(llamada.valor_str).mant
                       * Pow10(llamada.decimales - PyFloat(llamada.valor_str).frac)
        /\ (llamada.valor_str = Doce345 /\ llamada.decimales = 2 /\ llamada.longitud = 8)
              => retorno[1].txt = <<"0", "1", "2", "3", "4", "5", "0", "0">>
        /\ (/\ llamada.valor_str = <<"1", "2", "3", "4", ".", "5">>
            /\ llamada.decimales = 2 /\ llamada.longitud = 8)
              => retorno[1].txt = <<"0", "0", "1", "2", "3", "4", "5", "0">>

C12_Witness ==
    /\ Hecha("_formatear_decimal")
    /\ llamada.valor_str = Doce345 /\ llamada.decimales = 2 /\ llamada.longitud = 8
    /\ llamada.relleno = <<"*">> /\ llamada.alineacion = "LEFT"
    /\ NatOf(retorno[1].txt) = 1234500

\* the text is exactly one of YYYY-MM-DD, DD/MM/YYYY, DD-MM-YYYY
FechaExacta(s) ==
    /\ Len(s) = 10
    /\ \/ MatchDate(s, 4, "-", 2, 2)
       \/ MatchDate(s, 2, "/", 2, 4)
       \/ MatchDate(s, 2, "-", 2, 4)

\* YYYYMMDD of a text that is exactly one of the three forms
Reordenada(s) ==
    IF MatchDate(s, 4, "-", 2, 2)
    THEN SubSeq(s, 1, 4) \o SubSeq(s, 6, 7) \o SubSeq(s, 9, 10)
    ELSE SubSeq(s, 7, 10) \o SubSeq(s, 4, 5) \o SubSeq(s, 1, 2)

\* C13 (as stated): a DATE text of the form YYYY-MM-DD, DD/MM/YYYY or
\* DD-MM-YYYY is emitted as YYYYMMDD, and every other text, a text with
\* characters after one of the three forms included, reaches the padding
\* unchanged.
C13_FechaOtrasFormasIntactas ==
    Hecha("_formatear_fecha") =>
        retorno[1].txt =
            _aplicar_alineacion(IF FechaExacta(llamada.valor_str)
                                THEN Reordenada(llamada.valor_str)
                                ELSE llamada.valor_str,
                                llamada.longitud, llamada.relleno, llamada.alineacion)

(***************************************************************************)
(* DJDispatcher.procesar_dj_completo                                       *)
(***************************************************************************)
\* opciones.get(clave, defecto) on options held as "ausente", "True", "False"
OpcionGet(opciones, clave, defecto) ==
    IF opciones[clave] = "ausente" THEN defecto ELSE opciones[clave] = "True"

\* GeneratorSimple.generar_archivo: the lines of all rows, or the exception
\* of the first row that raises
RECURSIVE LineasDe(_, _)
LineasDe(filas, campos_ordenados) ==
    IF filas = <<>> THEN [st |-> "ok", lineas |-> <<>>]
    ELSE IF _generar_linea(Head(filas), campos_ordenados).st # "ok"
    THEN [st |-> _generar_linea(Head(filas), campos_ordenados).st, lineas |-> <<>>]
    ELSE IF LineasDe(Tail(filas), campos_ordenados).st # "ok"
    THEN LineasDe(Tail(filas), campos_ordenados)
    ELSE [st |-> "ok",
          lineas |-> <<_generar_linea(Head(filas), campos_ordenados).txt>>
                     \o LineasDe(Tail(filas), campos_ordenados).lineas]

generar_archivo(tabla, camposMeta) ==
    LineasDe(tabla.rows, _obtener_campos_ordenados(camposMeta))

\* a declared field whose column occurs twice in the table: fila.get gives
\* a Series and pd.isna(valor) has no truth value
ColumnaRepetida(tabla, camposMeta) ==
    \E i \in 1..Len(camposMeta) :
        Cardinality({k \in 1..Len(tabla.columns) :
                        tabla.columns[k] = camposMeta[i].codigo}) > 1

SinLineas(e) == [st |-> e, lineas |-> <<>>]

GeneraConsolidado(c, camposMeta) ==
    IF c.st # "ok" THEN SinLineas(c.st)
    ELSE IF c.df.rows # <<>> /\ ColumnaRepetida(c.df, camposMeta)
    THEN SinLineas("ValueError")
    ELSE generar_archivo(c.df, camposMeta)

\* GeneratorCompuesta.generar_archivo
generar_archivo_compuesto(datos, camposMeta) ==
    GeneraConsolidado(consolidar_dataframes(datos, camposMeta), camposMeta)

_generar_archivo_salida(p) ==
    IF p.tipo = "SIMPLE" THEN generar_archivo(p.datos, p.campos)
    ELSE generar_archivo_compuesto(p.datos, p.campos)

\* the validation report as the dispatcher uses it; errores_texto tells
\* that the entries of errores are plain texts (structure errors)
ValidacionSimple(r) ==
    [st |-> "ok", valido |-> r.res.valido, hay_errores |-> r.res.errores # <<>>,
     errores_texto |-> FALSE]

ValidacionCompuesta(d) ==
    [st |-> d.st, valido |-> d.valido, hay_errores |-> d.errores # <<>>,
     errores_texto |-> ~d.contenido]

ValidacionDe(p) ==
    IF p.tipo = "SIMPLE"
    THEN ValidacionSimple(validar_dataframe(p.datos,
                              [campos |-> p.campos, validaciones |-> p.validaciones],
                              <<>>))
    ELSE ValidacionCompuesta(_validar_datos(p.datos, p.campos))

PasosCarga == <<"metadata_cargada", "datos_procesados">>

Critico(pasos, valido, e) ==
    [pasos |-> pasos, validacion |-> valido, exito |-> FALSE, error_critico |-> e]

\* the same result with exito taken from the generated file alone
Fin_sin_valido(pasos, valido) ==
    [pasos |-> pasos, validacion |-> valido,
     exito |-> \E i \in 1..Len(pasos) : pasos[i] = "archivo_generado",
     error_critico |-> ""]

Fin(pasos, valido) ==
    [pasos |-> pasos, validacion |-> valido,
     exito |-> (valido = "True"
                /\ \E i \in 1..Len(pasos) : pasos[i] = "archivo_generado"),
     error_critico |-> ""]

Texto(b) == IF b THEN "True" ELSE "False"

\* lines 103-108: the optional storage step
TrasGenerar(p, v, pasos) ==
    IF OpcionGet(p.opciones, "guardar_access", FALSE)
    THEN (IF p.almacen_falla THEN Critico(pasos, Texto(v.valido), "Exception")
          ELSE Fin(Append(pasos, "datos_guardados"), Texto(v.valido)))
    ELSE Fin(pasos, Texto(v.valido))

Genera(p, v, pasos, g) ==
    IF g.st # "ok" THEN Critico(pasos, Texto(v.valido), g.st)
    ELSE TrasGenerar(p, v, Append(pasos, "archivo_generado"))

\* the same gate without the test of resultado_validacion["valido"]
Compuerta_siempre(p, v, pasos) == Genera(p, v, pasos, _generar_archivo_salida(p))

\* lines 96-108: the output file is generated only if valid or forced
Compuerta(p, v, pasos) ==
    IF v.valido \/ OpcionGet(p.opciones, "forzar_generacion", FALSE)
    THEN Genera(p, v, pasos, _generar_archivo_salida(p))
    ELSE Fin(pasos, Texto(v.valido))

\* lines 82-93: validation and the error report, which reads every error
\* with error.get and so raises AttributeError on a plain text
TrasValidar(p, v) ==
    IF v.st # "ok" THEN Critico(PasosCarga, "", v.st)
    ELSE IF ~v.valido /\ OpcionGet(p.opciones, "generar_reporte_errores", TRUE)
    THEN (IF v.hay_errores /\ v.errores_texto
          THEN Critico(Append(PasosCarga, "datos_validados"), Texto(v.valido),
                       "AttributeError")
          ELSE Compuerta(p, v, PasosCarga
                               \o <<"datos_validados", "reporte_errores_generado">>))
    ELSE Compuerta(p, v, Append(PasosCarga, "datos_validados"))

\* lines 66-79: steps 1 and 2; an exception of either reaches the except
\* clause with the steps appended so far
TrasCarga(p) ==
    IF p.carga_falla = "metadata" THEN Critico(<<>>, "", "Exception")
    ELSE IF p.carga_falla = "datos"
    THEN Critico(<<"metadata_cargada">>, "", "ValueError")
    ELSE TrasValidar(p, ValidacionDe(p))

procesar_dj_completo(p) == TrasCarga(p)

(***************************************************************************)
(* Inputs of the dispatcher.                                               *)
(***************************************************************************)
InfoEntero ==
    [tipo_dato |-> "INTEGER", longitud |-> 3, decimales |-> 0,
     alineacion |-> "RIGHT", relleno |-> <<"0">>, posicion |-> 1]

InfoTexto(posicion) ==
    [tipo_dato |-> "TEXT", longitud |-> 2, decimales |-> 0,
     alineacion |-> "LEFT", relleno |-> <<" ">>, posicion |-> posicion]

CamposSimple ==
    <<[codigo |-> "C1", campo_id |-> 1, obligatorio |-> TRUE, seccion |-> "",
       posicion |-> 1, info |-> InfoEntero]>>

ValidacionesSimple ==
    {<<>>,
     <<[campo |-> "C1",
        reglas |-> <<[codigo_validacion |-> "V1", expresion_py |-> ExprPositivo,
                      mensaje_error |-> "Debe ser mayor que cero"]>>]>>}

ValoresDis == {IntV(5), IntV(-100), StrV(<<"i", "n", "f">>)}

TablasDis ==
    {[columns |-> cols, rows |-> [i \in 1..Len(c1) |-> FilaTabla(cols, c1[i])]] :
        cols \in {<<"C1">>, <<"C2">>},
        c1 \in UNION {[1..n -> ValoresDis] : n \in 0..MaxFilasSec}}

CamposCompuesta ==
    {[i \in 1..Len(m) |->
        [codigo |-> m[i].codigo, seccion |-> m[i].seccion, posicion |-> m[i].posicion,
         obligatorio |-> m[i].obligatorio, info |-> InfoTexto(m[i].posicion)]] :
     m \in MetasSecciones}

Opciones ==
    [forzar_generacion : {"ausente", "False", "True"},
     generar_reporte_errores : {"ausente", "False"},
     guardar_access : {"ausente", "True"}]

\* the loading step that raises, if any
CargaFalla == {"", "metadata", "datos"}

SinOpciones ==
    [forzar_generacion |-> "ausente", generar_reporte_errores |-> "ausente",
     guardar_access |-> "ausente"]

Pedidos ==
    [tipo : {"SIMPLE"}, campos : {CamposSimple}, validaciones : ValidacionesSimple,
     datos : TablasDis, opciones : Opciones, almacen_falla : BOOLEAN,
     carga_falla : CargaFalla]
    \cup [tipo : {"COMPUESTA"}, campos : CamposCompuesta, validaciones : {<<>>},
          datos : {m \in MapasSecciones : Len(m) <= 2}, opciones : Opciones,
          almacen_falla : BOOLEAN, carga_falla : CargaFalla]

InitDis ==
    /\ pedido \in {p \in Pedidos :
                     /\ p.almacen_falla => p.opciones.guardar_access = "True"
                     /\ p.carga_falla # ""
                           => p.opciones = SinOpciones /\ ~p.almacen_falla}
    /\ proceso = <<>>
    /\ EncReposo
    /\ ValReposo
    /\ SecReposo
    /\ FmtReposo
    /\ AlmReposo

ProcesarDjCompleto ==
    /\ proceso' = <<procesar_dj_completo(pedido)>>
    /\ UNCHANGED <<pedido, fueraDeDis>>

NextDis == ProcesarDjCompleto

SpecDis == InitDis /\ [][NextDis]_vars

Procesado == proceso # <<>>

ArchivoGenerado ==
    \E i \in 1..Len(proceso[1].pasos) : proceso[1].pasos[i] = "archivo_generado"

Forzado == pedido.opciones.forzar_generacion = "True"

MaxDocumentos == 3
MaxAltas == 4

Fecha20240115 == T("2", "0", "2", "4", "-") \o T("0", "1", "-", "1", "5")

FechaMala == T("1", "5", "/", "0", "1") \o T("/", "2", "0", "2", "4")

\* datetime.datetime.strptime(s, '%Y-%m-%d').date() on the texts of the model
Strptime(s) ==
    IF /\ Len(s) = 10
       /\ MatchDate(s, 4, "-", 2, 2)
       /\ NatOf(SubSeq(s, 6, 7)) \in 1..12
       /\ NatOf(SubSeq(s, 9, 10)) \in 1..28
    THEN [st |-> "ok", y |-> NatOf(SubSeq(s, 1, 4)), m |-> NatOf(SubSeq(s, 6, 7)),
          d |-> NatOf(SubSeq(s, 9, 10))]
    ELSE [st |-> "ValueError", y |-> 0, m |-> 0, d |-> 0]

\* fecha as given: a date object ("date") or a text to parse
FechaDe(fecha) ==
    IF fecha.t = "date" THEN [st |-> "ok", y |-> fecha.y, m |-> fecha.m, d |-> fecha.d]
    ELSE Strptime(fecha.s)

FechaObjeto == [t |-> "date", y |-> 2024, m |-> 1, d |-> 15, s |-> <<>>]

FechaTexto(s) == [t |-> "str", y |-> 0, m |-> 0, d |-> 0, s |-> s]

Claves_indices(ind) == {ind[i].id : i \in 1..Len(ind)}

IndiceDe(ind, doc_id) == ind[CHOOSE i \in 1..Len(ind) : ind[i].id = doc_id].idx

\* self._indices[doc_id] = idx: a known key keeps its place in the dict
PoneIndice(ind, doc_id, idx) ==
    IF doc_id \in Claves_indices(ind)
    THEN [i \in 1..Len(ind) |-> IF ind[i].id = doc_id THEN [id |-> doc_id, idx |-> idx]
                                ELSE ind[i]]
    ELSE Append(ind, [id |-> doc_id, idx |-> idx])

\* f"{rut_emisor}_{tipo_documento}_{len(self._documentos)}"
DocId(rut_emisor, tipo_documento, docs) ==
    <<rut_emisor, tipo_documento, NatStr(Len(docs))>>

\* DataGenerar.get
gen_get(docs, ind, doc_id) ==
    IF doc_id \in Claves_indices(ind) THEN <<docs[IndiceDe(ind, doc_id) + 1]>> ELSE <<>>

\* del self._documentos[index]
SinElemento(s, k) == SubSeq(s, 1, k - 1) \o SubSeq(s, k + 1, Len(s))

\* lines 152-158 of delete: the entry removed, the others renumbered in
\* dictionary order
Reindexa(ind, doc_id) ==
    LET quedan == SelectSeq(ind, LAMBDA e : e.id # doc_id)
    IN  [i \in 1..Len(quedan) |-> [id |-> quedan[i].id, idx |-> i - 1]]

GenInicial == [op |-> "init", id |-> <<>>, ok |-> TRUE, antes |-> {}, serie |-> 0]

\* the document and the id of a store whose data passed the checks
Alta(data, fecha) ==
    [doc |-> [rut_emisor |-> data.rut_emisor, tipo_documento |-> data.tipo_documento,
              fecha_emision |-> <<fecha.y, fecha.m, fecha.d>>,
              serie |-> genUltimo.serie + 1],
     id |-> DocId(data.rut_emisor, data.tipo_documento, documentos)]

GenRechaza ==
    /\ genUltimo' = [genUltimo EXCEPT !.op = "store", !.id = <<>>, !.ok = FALSE,
                                      !.antes = Claves_indices(indices)]
    /\ UNCHANGED <<documentos, indices, entregados>>

GenAcepta(a) ==
    /\ documentos' = Append(documentos, a.doc)
    /\ indices' = PoneIndice(indices, a.id, Len(documentos))
    /\ entregados' = Append(entregados, [id |-> a.id, doc |-> a.doc])
    /\ genUltimo' = [op |-> "store", id |-> a.id, ok |-> TRUE,
                     antes |-> Claves_indices(indices), serie |-> genUltimo.serie + 1]

DatosDocumento ==
    [rut_emisor : {"R1", "R2"}, tipo_documento : {"F"},
     fecha_emision : {FechaObjeto, FechaTexto(Fecha20240115), FechaTexto(FechaMala)},
     falta : {"", "rut_receptor"}]

\* DataGenerar.store
GenStore ==
    /\ Len(documentos) < MaxDocumentos
    /\ genUltimo.serie < MaxAltas
    /\ \E data \in DatosDocumento :
          IF data.falta # "" \/ FechaDe(data.fecha_emision).st # "ok"
          THEN GenRechaza
          ELSE GenAcepta(Alta(data, FechaDe(data.fecha_emision)))
    /\ UNCHANGED fueraDeGen

IdsPosibles ==
    {<<r, "F", NatStr(n)>> : r \in {"R1", "R2"}, n \in 0..(MaxDocumentos - 1)}

\* DataGenerar.delete
GenDelete ==
    /\ \E doc_id \in IdsPosibles :
          IF doc_id \in Claves_indices(indices)
          THEN /\ documentos' = SinElemento(documentos, IndiceDe(indices, doc_id) + 1)
               /\ indices' = Reindexa(indices, doc_id)
               /\ entregados' =
                     SelectSeq(entregados,
                               LAMBDA e : e.doc # documentos[IndiceDe(indices, doc_id) + 1])
               /\ genUltimo' = [genUltimo EXCEPT !.op = "delete", !.id = doc_id,
                                                 !.ok = TRUE,
                                                 !.antes = Claves_indices(indices)]
          ELSE /\ genUltimo' = [genUltimo EXCEPT !.op = "delete", !.id = doc_id,
                                                 !.ok = FALSE,
                                                 !.antes = Claves_indices(indices)]
               /\ UNCHANGED <<documentos, indices, entregados>>
    /\ UNCHANGED fueraDeGen

InitGen ==
    /\ documentos = <<>>
    /\ indices = <<>>
    /\ entregados = <<>>
    /\ genUltimo = GenInicial
    /\ EncReposo
    /\ ValReposo
    /\ SecReposo
    /\ FmtReposo
    /\ DisReposo
    /\ DecReposo
    /\ RutReposo

NextGen == GenStore \/ GenDelete

SpecGen == InitGen /\ [][NextGen]_vars

\* C15 (as stated): the id returned by a store differs from every id still
\* held, every document stored and not deleted is the one get returns for
\* its id, and count() is the number of ids that get resolves.
C15_IdUnico ==
    /\ (genUltimo.op = "store" /\ genUltimo.ok) => genUltimo.id \notin genUltimo.antes
    /\ \A i \in 1..Len(entregados) :
          gen_get(documentos, indices, entregados[i].id) = <<entregados[i].doc>>
    /\ Len(documentos) = Cardinality(Claves_indices(indices))

(***************************************************************************)
(* DataDeclaracion                                                         *)
(***************************************************************************)
MaxFolios == 3

\* EstadoDeclaracion: the values of the enumeration
EstadosDeclaracion == {"borrador", "enviada", "aceptada", "rechazada", "corregida"}

\* the data of the model have at most one defect
DatosDeclaracion ==
    {d \in [folio : {<<"F", Digits[k + 1]>> : k \in 1..MaxFolios},
            periodo : {"202401", "202402"},
            fecha_declaracion : {FechaObjeto, FechaTexto(Fecha20240115),
                                 FechaTexto(FechaMala)},
            estado : {"ausente", "enviada", "anulada"},
            monto_total : {IntV(100), StrV(<<"a", "b", "c">>)},
            falta : {"", "periodo"}] :
        Cardinality({x \in {"falta", "fecha", "estado", "monto"} :
                        \/ x = "falta" /\ d.falta # ""
                        \/ x = "fecha" /\ d.fecha_declaracion = FechaTexto(FechaMala)
                        \/ x = "estado" /\ d.estado = "anulada"
                        \/ x = "monto" /\ d.monto_total.t = "str"}) <= 1}

FoliosDe(ind) == {ind[i].folio : i \in 1..Len(ind)}

\* float(declaracion_data['monto_total']) of a number or a text
MontoDe(v) ==
    IF v.t = "int" THEN [st |-> "ok", n |-> v.n]
    ELSE IF PyFloat(v.s).k = "err" THEN [st |-> "ValueError", n |-> 0]
    ELSE [st |-> "ok", n |-> PyInt(PyFloat(v.s)).n]

\* why store raises on these data, "" if it does not; without the check of
\* lines 80-81
Rechazo_sin_folio(data, ind_folio) ==
    IF data.falta # "" THEN "Campo requerido faltante"
    ELSE IF FechaDe(data.fecha_declaracion).st # "ok" THEN "fecha"
    ELSE IF data.estado # "ausente" /\ data.estado \notin EstadosDeclaracion THEN "estado"
    ELSE IF MontoDe(data.monto_total).st # "ok" THEN "monto"
    ELSE ""

\* why store raises on these data (lines 75-104), "" if it does not
Rechazo(data, ind_folio) ==
    IF data.falta # "" THEN "Campo requerido faltante"
    ELSE IF data.folio \in FoliosDe(ind_folio) THEN "Folio ya existe"
    ELSE IF FechaDe(data.fecha_declaracion).st # "ok" THEN "fecha"
    ELSE IF data.estado # "ausente" /\ data.estado \notin EstadosDeclaracion THEN "estado"
    ELSE IF MontoDe(data.monto_total).st # "ok" THEN "monto"
    ELSE ""

\* lines 98-109: the Declaracion built from the data
DeclaracionDe(data) ==
    [folio |-> data.folio, periodo |-> data.periodo,
     fecha_declaracion |-> <<FechaDe(data.fecha_declaracion).y,
                             FechaDe(data.fecha_declaracion).m,
                             FechaDe(data.fecha_declaracion).d>>,
     monto_total |-> MontoDe(data.monto_total).n,
     estado |-> IF data.estado = "ausente" THEN "borrador" ELSE data.estado]

PeriodosDe(ind) == {ind[i].periodo : i \in 1..Len(ind)}

\* lines 117-120: the index appended to the list of its periodo
PonePeriodo(ind, periodo, index) ==
    IF periodo \in PeriodosDe(ind)
    THEN [i \in 1..Len(ind) |->
            IF ind[i].periodo = periodo
            THEN [periodo |-> periodo, lista |-> Append(ind[i].lista, index)]
            ELSE ind[i]]
    ELSE Append(ind, [periodo |-> periodo, lista |-> <<index>>])

\* DataDeclaracion.get
dec_get(decls, ind_folio, folio) ==
    IF folio \in FoliosDe(ind_folio)
    THEN <<decls[ind_folio[CHOOSE i \in 1..Len(ind_folio) :
                              ind_folio[i].folio = folio].idx + 1]>>
    ELSE <<>>

\* DataDeclaracion.get_by_periodo
get_by_periodo(decls, ind_periodo, periodo) ==
    IF periodo \in PeriodosDe(ind_periodo)
    THEN LET lista == ind_periodo[CHOOSE i \in 1..Len(ind_periodo) :
                                     ind_periodo[i].periodo = periodo].lista
         IN  [k \in 1..Len(lista) |-> decls[lista[k] + 1]]
    ELSE <<>>

Antes == [declaraciones |-> declaraciones, indices_folio |-> indices_folio,
          indices_periodo |-> indices_periodo]

DecRechaza(data, motivo) ==
    /\ decUltimo' = <<[st |-> "ValueError", motivo |-> motivo, data |-> <<>>,
                       antes |-> Antes]>>
    /\ UNCHANGED <<declaraciones, indices_folio, indices_periodo, decExitos>>

DecAcepta(data) ==
    /\ declaraciones' = Append(declaraciones, DeclaracionDe(data))
    /\ indices_folio' = Append(SelectSeq(indices_folio, LAMBDA e : e.folio # data.folio),
                               [folio |-> data.folio, idx |-> Len(declaraciones)])
    /\ indices_periodo' = PonePeriodo(indices_periodo, data.periodo, Len(declaraciones))
    /\ decExitos' = decExitos + 1
    /\ decUltimo' = <<[st |-> "ok", motivo |-> "", data |-> <<data>>, antes |-> Antes]>>

\* DataDeclaracion.store
DecStore ==
    /\ \E data \in DatosDeclaracion :
          IF Rechazo(data, indices_folio) # ""
          THEN DecRechaza(data, Rechazo(data, indices_folio))
          ELSE DecAcepta(data)
    /\ UNCHANGED fueraDeDec

InitDec ==
    /\ declaraciones = <<>>
    /\ indices_folio = <<>>
    /\ indices_periodo = <<>>
    /\ decUltimo = <<>>
    /\ decExitos = 0
    /\ EncReposo
    /\ ValReposo
    /\ SecReposo
    /\ FmtReposo
    /\ DisReposo
    /\ GenReposo
    /\ RutReposo

NextDec == DecStore

SpecDec == InitDec /\ [][NextDec]_vars

\* C16: after any sequence of store calls, get(folio) is the declaration
\* stored under the folio (and nothing for a folio never stored),
\* get_by_periodo(p) is the list of the stored declarations of periodo p in
\* store order, count() is the number of stores that returned, a store that
\* returned appended the declaration of its data, and a store that raised
\* left the list and both indices as they were.
C16_IndicesCoherentes ==
    /\ \A i \in 1..Len(declaraciones) :
          dec_get(declaraciones, indices_folio, declaraciones[i].folio)
              = <<declaraciones[i]>>
    /\ \A d \in DatosDeclaracion :
          (\A i \in 1..Len(declaraciones) : declaraciones[i].folio # d.folio)
              => dec_get(declaraciones, indices_folio, d.folio) = <<>>
    /\ \A p \in {"202401", "202402"} :
          get_by_periodo(declaraciones, indices_periodo, p)
              = SelectSeq(declaraciones, LAMBDA d : d.periodo = p)
    /\ Len(declaraciones) = decExitos
    /\ decUltimo # <<>> =>
          IF decUltimo[1].st = "ok"
          THEN /\ declaraciones
                    = Append(decUltimo[1].antes.declaraciones,
                             DeclaracionDe(decUltimo[1].data[1]))
               /\ decUltimo[1].data[1].folio
                    \notin FoliosDe(decUltimo[1].antes.indices_folio)
          ELSE decUltimo[1].antes = Antes

\* three declarations stored, two of the same periodo with another one
\* between them, and a last store rejected for its duplicate folio
C16_Witness ==
    /\ Len(declaraciones) = 3
    /\ declaraciones[1].periodo = "202401"
    /\ declaraciones[2].periodo = "202402"
    /\ declaraciones[3].periodo = "202401"
    /\ decUltimo # <<>>
    /\ decUltimo[1].st = "ValueError"
    /\ decUltimo[1].motivo = "Folio ya existe"

(***************************************************************************)
(* RUT check digit: DataSii.validar_rut and dj.utils.helpers.              *)
(***************************************************************************)
MaxCuerpo == 7

\* str.upper() and str.isdigit() on the characters of the model
Upper(c) == IF c = "k" THEN "K" ELSE c

Mayusculas(s) == [i \in 1..Len(s) |-> Upper(s[i])]

\* rut.replace('.', '').replace('-', '').upper()
LimpiaSii(rut) == Mayusculas(Without(Without(rut, "."), "-"))

\* helpers.clean_rut: re.sub(r'[.\-\s]', '', rut).upper()
clean_rut(rut) == Mayusculas(Without(Without(Without(rut, "."), "-"), " "))

\* str.isdigit(): not empty and only digits
EsNumerico(s) == s # <<>> /\ AllDigits(s)

\* the loop over reversed(numero): weights 2..7 cycling from the right
RECURSIVE SumaPonderada(_, _)
SumaPonderada(numero, multiplicador) ==
    IF numero = <<>> THEN 0
    ELSE DigitVal(numero[Len(numero)]) * multiplicador
         + SumaPonderada(SubSeq(numero, 1, Len(numero) - 1),
                         IF multiplicador + 1 > 7 THEN 2 ELSE multiplicador + 1)

\* the digit without the replacement of '10' by 'K'
DvDeResto_sin_K(resto) ==
    IF resto = 0 THEN "0" ELSE IF 11 - resto = 10 THEN "10" ELSE Digits[(11 - resto) + 1]

\* str(11 - resto) if resto != 0 else '0', and '10' replaced by 'K'
DvDeResto(resto) ==
    IF resto = 0 THEN "0" ELSE IF 11 - resto = 10 THEN "K" ELSE Digits[(11 - resto) + 1]

\* DataSii.validar_rut
validar_rut(rut) ==
    IF Len(LimpiaSii(rut)) < 2 THEN [valido |-> FALSE, error |-> "RUT muy corto", dv_calculado |-> ""]
    ELSE IF ~EsNumerico(SubSeq(LimpiaSii(rut), 1, Len(LimpiaSii(rut)) - 1))
    THEN [valido |-> FALSE, error |-> "RUT contiene caracteres no validos",
          dv_calculado |-> ""]
    ELSE [valido |-> LimpiaSii(rut)[Len(LimpiaSii(rut))]
                     = DvDeResto(SumaPonderada(SubSeq(LimpiaSii(rut), 1,
                                                      Len(LimpiaSii(rut)) - 1), 2) % 11),
          error |-> "",
          dv_calculado |-> DvDeResto(SumaPonderada(SubSeq(LimpiaSii(rut), 1,
                                                          Len(LimpiaSii(rut)) - 1), 2) % 11)]

\* helpers.validate_rut_digit
validate_rut_digit(rut) ==
    IF Len(clean_rut(rut)) < 2 THEN FALSE
    ELSE IF ~EsNumerico(SubSeq(clean_rut(rut), 1, Len(clean_rut(rut)) - 1)) THEN FALSE
    ELSE clean_rut(rut)[Len(clean_rut(rut))]
         = DvDeResto(SumaPonderada(SubSeq(clean_rut(rut), 1, Len(clean_rut(rut)) - 1), 2)
                     % 11)

\* helpers.calculate_rut_digit
calculate_rut_digit(rut_numero) ==
    IF ~EsNumerico(rut_numero) THEN [st |-> "ValueError", dv |-> ""]
    ELSE [st |-> "ok", dv |-> DvDeResto(SumaPonderada(rut_numero, 2) % 11)]

(***************************************************************************)
(* Inputs: a numeric body, a last character, and a way of writing them.    *)
(***************************************************************************)
Cuerpos ==
    UNION {[1..n -> {"0", "9"}] : n \in 1..MaxCuerpo}
    \cup {<<"1", "2", "3", "4", "5", "6", "7", "8">>}

UltimosCaracteres == {Digits[i] : i \in 1..10} \cup {"K", "k", "X"}

\* 12.345.678-9 style: a point before every group of three digits
RECURSIVE ConPuntos(_)
ConPuntos(numero) ==
    IF Len(numero) <= 3 THEN numero
    ELSE ConPuntos(SubSeq(numero, 1, Len(numero) - 3)) \o <<".">>
         \o SubSeq(numero, Len(numero) - 2, Len(numero))

Escrito(cuerpo, dv, forma) ==
    IF forma = "junto" THEN cuerpo \o <<dv>>
    ELSE IF forma = "guion" THEN cuerpo \o <<"-", dv>>
    ELSE IF forma = "puntos" THEN ConPuntos(cuerpo) \o <<"-", dv>>
    ELSE cuerpo \o <<" ", "-", dv>>

Formas == {"junto", "guion", "puntos", "espacio"}

InitRut ==
    /\ \E cuerpo \in Cuerpos, dv \in UltimosCaracteres, forma \in Formas :
          rutEntrada = [cuerpo |-> cuerpo, dv |-> dv, forma |-> forma,
                        rut |-> Escrito(cuerpo, dv, forma)]
    /\ rutSalida = <<>>
    /\ EncReposo
    /\ ValReposo
    /\ SecReposo
    /\ FmtReposo
    /\ DisReposo
    /\ GenReposo
    /\ DecReposo

\* the three functions called on the same text (calculate_rut_digit on its
\* body)
ValidarRut ==
    /\ rutSalida' = <<[sii |-> validar_rut(rutEntrada.rut),
                       helper |-> validate_rut_digit(rutEntrada.rut),
                       dv |-> calculate_rut_digit(rutEntrada.cuerpo)]>>
    /\ UNCHANGED <<rutEntrada, fueraDeRut>>

NextRut == ValidarRut

SpecRut == InitRut /\ [][NextRut]_vars

\* the modulo-11 check digit of a numeric body, by its definition: the
\* digit at distance k from the right weighs 2 + (k mod 6)
DigitoModulo11(cuerpo) ==
    LET Peso(k) == 2 + (k % 6)
        F[n \in 0..Len(cuerpo)] ==
            IF n = 0 THEN 0
            ELSE F[n - 1] + DigitVal(cuerpo[Len(cuerpo) - n + 1]) * Peso(n - 1)
        resto == F[Len(cuerpo)] % 11
    IN  IF resto = 0 THEN "0"
        ELSE IF resto = 1 THEN "K"
        ELSE Digits[12 - resto]

RellenoEfectivo == IF Len(llamada.relleno) = 1 THEN llamada.relleno[1] ELSE " "

\* the value with `izq` fill characters before it and `der` after it
Rellenado(izq, der) ==
    Rep(RellenoEfectivo, izq) \o llamada.valor_str \o Rep(RellenoEfectivo, der)

\* C18: for longitud > 0, _aplicar_alineacion returns exactly `longitud`
\* characters: the first `longitud` characters of a longer value whatever the
\* alignment; a shorter value intact, filled on the right (LEFT), on the left
\* (RIGHT) or on both sides, the two sides differing by at most one
\* (CENTER); a fill that is empty or longer than one character counts as a
\* space.
C18_AlineacionExacta ==
    (Hecha("_aplicar_alineacion") /\ llamada.longitud > 0) =>
        LET falta == llamada.longitud - Len(llamada.valor_str)
        IN  /\ retorno[1].st = "ok"
            /\ Len(retorno[1].txt) = llamada.longitud
            /\ falta < 0 => retorno[1].txt = SubSeq(llamada.valor_str, 1, llamada.longitud)
            /\ (falta >= 0 /\ llamada.alineacion = "LEFT")
                  => retorno[1].txt = Rellenado(0, falta)
            /\ (falta >= 0 /\ llamada.alineacion = "RIGHT")
                  => retorno[1].txt = Rellenado(falta, 0)
            /\ (falta >= 0 /\ llamada.alineacion = "CENTER")
                  => \E izq \in {falta \div 2, falta - (falta \div 2)} :
                        retorno[1].txt = Rellenado(izq, falta - izq)

\* '12345' centred in 8 characters with a two-character fill: ' 12345  '
C18_Witness ==
    /\ Hecha("_aplicar_alineacion")
    /\ llamada.valor_str = Doce345
    /\ llamada.longitud = 8
    /\ llamada.alineacion = "CENTER"
    /\ llamada.relleno = <<"a", "b">>
    /\ retorno[1].txt = <<" ", "1", "2", "3", "4", "5", " ", " ">>

\* C19 (as stated): with longitud <= 0 every data type emits its formatted
\* value whole: a TEXT field its stripped text, and no type loses a value
\* that is not blank.
C19_SinAnchoValorEntero ==
    (retorno # <<>> /\ llamada.longitud <= 0 /\ retorno[1].st = "ok") =>
        /\ Hecha("_formatear_texto") => retorno[1].txt = Strip(llamada.valor_str)
        /\ Strip(llamada.valor_str) # <<>> => retorno[1].txt # <<>>

(***************************************************************************)
(* Order of the fields in a line (SpecEnc).                                *)
(***************************************************************************)
PosicionesDistintas ==
    \A i, j \in 1..Len(campos) :
        i # j => campos[i].info.posicion # campos[j].info.posicion

\* sum of the lengths of the fields with a smaller position than field i
Desplazamiento(i) ==
    LET F[n \in 0..Len(campos)] ==
            IF n = 0 THEN 0
            ELSE F[n - 1]
                 + (IF campos[n].info.posicion < campos[i].info.posicion
                    THEN campos[n].info.longitud ELSE 0)
    IN  F[Len(campos)]

\* the characters of the line between the offset of field i and its length
Tramo(i) ==
    SubSeq(linea.txt, Desplazamiento(i) + 1,
           Desplazamiento(i) + campos[i].info.longitud)

\* C20: in every line produced from a metadata with distinct positions and
\* positive lengths, the text of each field, formatted from the row's value
\* for its code, starts at the offset equal to the sum of the lengths of the
\* fields with a smaller position, whatever the order of the metadata list,
\* and the line has nothing else.
C20_CamposPorPosicion ==
    (linea.st = "ok" /\ LongitudesPositivas /\ PosicionesDistintas) =>
        /\ \A i \in 1..Len(campos) :
              Tramo(i) = _formatear_valor(FilaGet(fila, campos[i].codigo),
                                          campos[i].info).txt
        /\ Len(linea.txt) = SumaLongitudes(campos)

\* the field listed second has the smaller position and comes first in the
\* line, with a different text from the field listed first
C20_Witness ==
    /\ linea.st = "ok"
    /\ LongitudesPositivas
    /\ Len(campos) = 2
    /\ campos[2].info.posicion < campos[1].info.posicion
    /\ DOMAIN fila = {"C1", "C2"}
    /\ Desplazamiento(2) = 0
    /\ Desplazamiento(1) = campos[2].info.longitud
    /\ Tramo(2) = _formatear_valor(fila["C2"], campos[2].info).txt
    /\ Tramo(1) = _formatear_valor(fila["C1"], campos[1].info).txt
    /\ campos[1].info.longitud = campos[2].info.longitud
    /\ Tramo(1) # Tramo(2)

(***************************************************************************)
(* DECIMAL fields with decimals (SpecFmt).                                 *)
(***************************************************************************)
\* the number a DECIMAL field encodes: 0.0 for an empty or unparseable text
NumeroDecimal ==
    IF llamada.valor_str = <<>> \/ PyFloat(llamada.valor_str).k = "err"
    THEN [k |-> "fin", neg |-> FALSE, mant |-> 0, frac |-> 0]
    ELSE PyFloat(llamada.valor_str)

\* the number rounded to `decimales` fraction digits, without its point
CifrasDecimal == Without(FormatFixed(NumeroDecimal, llamada.decimales), ".")

DecimalConAncho ==
    /\ Hecha("_formatear_decimal")
    /\ llamada.decimales > 0
    /\ llamada.longitud > 0

\* C21 (as stated): with decimales > 0 and longitud > 0, a value that fits
\* the field is encoded as its rounded value without the separator,
\* left-padded with '0' to `longitud` characters, and an empty, blank or
\* unparseable value as `longitud` zeros.
C21_DecimalRellenoIzquierda ==
    DecimalConAncho =>
        /\ retorno[1].st = "ok"
        /\ Len(CifrasDecimal) <= llamada.longitud
              => retorno[1].txt = Rjust(CifrasDecimal, llamada.longitud, "0")
        /\ (llamada.valor_str = <<>> \/ PyFloat(llamada.valor_str).k = "err")
              => retorno[1].txt = Rep("0", llamada.longitud)

\* C21 (amended): with decimales > 0 and longitud > 0 the field has exactly
\* `longitud` characters: the rounded value without its separator, with
\* zeros put after the sign of a negative value and before the digits, and
\* cut to its first `longitud` characters when it is longer than the field;
\* an empty, blank or unparseable value gives `longitud` zeros; alignment and
\* fill play no part.
C21_DecimalCerosTrasSigno ==
    DecimalConAncho =>
        LET negativo == Head(CifrasDecimal) = "-"
            digitos == IF negativo THEN Tail(CifrasDecimal) ELSE CifrasDecimal
            ceros == Rep("0", IF llamada.longitud > Len(CifrasDecimal)
                              THEN llamada.longitud - Len(CifrasDecimal) ELSE 0)
            entero == (IF negativo THEN <<"-">> ELSE <<>>) \o ceros \o digitos
        IN  /\ retorno[1].st = "ok"
            /\ retorno[1].txt = SubSeq(entero, 1, llamada.longitud)
            /\ (llamada.valor_str = <<>> \/ PyFloat(llamada.valor_str).k = "err")
                  => retorno[1].txt = Rep("0", llamada.longitud)

\* -12 with one decimal in eight characters, centred with a fill: '-0000120'
C21_Witness ==
    /\ DecimalConAncho
    /\ llamada.valor_str = <<"-", "1", "2">>
    /\ llamada.decimales = 1
    /\ llamada.longitud = 8
    /\ llamada.alineacion = "CENTER"
    /\ llamada.relleno = <<"*">>
    /\ retorno[1].txt = <<"-", "0", "0", "0", "0", "1", "2", "0">>

(***************************************************************************)
(* The lookup cache over the calls of one validator (SpecVal).             *)
(***************************************************************************)
\* how many times the call fetched the table from the store
Veces(fetched, tabla) == Cardinality({i \in 1..Len(fetched) : fetched[i] = tabla})

\* C22: over every call of validar_dataframe, a table in the cache stays in
\* it with the same rows; a table enters the cache only with the rows the
\* store returned, after exactly one fetch in that call; and a table already
\* cached is not fetched again.
C22_CacheEscribeUnaVez ==
    [][/\ \A t \in DOMAIN lookupCache :
             /\ t \in DOMAIN lookupCache'
             /\ lookupCache'[t] = lookupCache[t]
             /\ Veces(consultas', t) = 0
       /\ \A t \in DOMAIN lookupCache' \ DOMAIN lookupCache :
             /\ get_tabla_lookup(t).st = "ok"
             /\ lookupCache'[t] = get_tabla_lookup(t).filas
             /\ Veces(consultas', t) = 1]_vars

\* a second call with three rows looked up in a table cached by the first
C22_Witness ==
    /\ previo # <<>>
    /\ "UF" \in DOMAIN lookupCache
    /\ lookupCache["UF"] = TablasLookup["UF"]
    /\ Cardinality({e \in evaluadas : e[2] = "V2"}) = MaxFilas
    /\ consultas = <<>>

(***************************************************************************)
(* What a call leaves of its table and metadata (SpecVal).                 *)
(***************************************************************************)
\* C23 (as stated): validar_dataframe only reads: after every call the table
\* (cells, columns, row order) and the metadata are what they were before
\* it, whatever rules were evaluated.
C23_SoloLee == [][df' = df /\ valMeta' = valMeta]_vars

(***************************************************************************)
(* Rules of fields without a column (SpecVal).                             *)
(***************************************************************************)
\* the entries of validaciones_omitidas for a field and a rule
OmitidasDe(col, cod) ==
    {j \in 1..Len(Reporte.validaciones_omitidas) :
        /\ Reporte.validaciones_omitidas[j].columna = col
        /\ Reporte.validaciones_omitidas[j].codigo = cod}

\* the fields of the rule map without a column in the table
EntradasAusentes ==
    {i \in 1..Len(valMeta.validaciones) : valMeta.validaciones[i].campo \notin Columnas}

\* C24: when no required column is missing, every rule of a field that has
\* no column in the table has exactly one validaciones_omitidas entry, with
\* the field code, the rule code and a reason, is evaluated for no row and
\* gives no error; and no entry of validaciones_omitidas names a field that
\* has a column.
C24_OmitidasPorColumnaAusente ==
    (HayReporte /\ ObligatoriasFaltantes = {}) =>
        /\ \A i \in EntradasAusentes :
              \A k \in 1..Len(valMeta.validaciones[i].reglas) :
                  LET col == valMeta.validaciones[i].campo
                      cod == valMeta.validaciones[i].reglas[k].codigo_validacion
                  IN  /\ Cardinality(OmitidasDe(col, cod)) = 1
                      /\ \A j \in OmitidasDe(col, cod) :
                            Reporte.validaciones_omitidas[j].motivo
                               = "Columna no presente en el DataFrame"
                      /\ \A e \in evaluadas : ~(e[1] = col /\ e[2] = cod)
                      /\ \A j \in 1..Len(Reporte.errores) :
                            ~(Reporte.errores[j].columna = col
                              /\ Reporte.errores[j].codigo = cod)
        /\ \A j \in 1..Len(Reporte.validaciones_omitidas) :
              Reporte.validaciones_omitidas[j].columna \notin Columnas

\* two rules of an absent optional field over a table with rows
C24_Witness ==
    /\ HayReporte
    /\ ObligatoriasFaltantes = {}
    /\ Columnas = {"C1"}
    /\ Len(df.rows) = MaxFilas
    /\ Len(Reporte.validaciones_omitidas) = 2
    /\ Reporte.validaciones_omitidas[1].columna = "C2"
    /\ Reporte.validaciones_omitidas[2].columna = "C2"
    /\ Reporte.errores = <<>>

(***************************************************************************)
(* Order and number of the evaluations of a call (SpecVal).                *)
(***************************************************************************)
\* position of a field in the rule map, and of a rule in the field's list
IndiceCampo(col) ==
    CHOOSE i \in 1..Len(valMeta.validaciones) : valMeta.validaciones[i].campo = col

IndiceRegla(col, cod) ==
    CHOOSE k \in 1..Len(valMeta.validaciones[IndiceCampo(col)].reglas) :
        valMeta.validaciones[IndiceCampo(col)].reglas[k].codigo_validacion = cod

\* (field, row, rule) before (field, row, rule): field first, then row, then
\* the rule's place in the field's list
Precede(i1, f1, k1, i2, f2, k2) ==
    \/ i1 < i2
    \/ i1 = i2 /\ f1 < f2
    \/ i1 = i2 /\ f1 = f2 /\ k1 < k2

EvaluacionesDe(c) ==
    {e \in evaluadas :
        e[1] = CampoDe(c) /\ e[2] = ReglaDe(c).codigo_validacion /\ e[3] = c[3]}

\* C25: when no required column is missing, every rule of a present field
\* is evaluated exactly once on every row, also after an earlier rule of the
\* cell failed (a cell whose context cannot be built gives one error per rule
\* instead); the evaluations run, and the errors of the report are listed,
\* by field in rule-map order, then by ascending row, then by the rule's
\* place in the field's list.
C25_CadaParUnaVezEnOrden ==
    (HayReporte /\ ObligatoriasFaltantes = {}) =>
        /\ \A c \in Celdas :
              IF EvalCelda(c).st = "contexto"
              THEN /\ EvaluacionesDe(c) = {}
                   /\ Cardinality(ErroresDe(CampoDe(c), ReglaDe(c).codigo_validacion,
                                            c[3] + 1)) = 1
              ELSE Cardinality(EvaluacionesDe(c)) = 1
        /\ \A e \in evaluadas :
              \E c \in Celdas : e \in EvaluacionesDe(c)
        /\ \A e1, e2 \in evaluadas :
              e1[4] < e2[4] =>
                  Precede(IndiceCampo(e1[1]), e1[3], IndiceRegla(e1[1], e1[2]),
                          IndiceCampo(e2[1]), e2[3], IndiceRegla(e2[1], e2[2]))
        /\ \A j1, j2 \in 1..Len(Reporte.errores) :
              j1 < j2 =>
                  Precede(IndiceCampo(Reporte.errores[j1].columna),
                          Reporte.errores[j1].fila,
                          IndiceRegla(Reporte.errores[j1].columna,
                                      Reporte.errores[j1].codigo),
                          IndiceCampo(Reporte.errores[j2].columna),
                          Reporte.errores[j2].fila,
                          IndiceRegla(Reporte.errores[j2].columna,
                                      Reporte.errores[j2].codigo))

\* two rules on one field, the first failing on every row: every row has
\* both evaluations and both errors
C25_Witness ==
    /\ HayReporte
    /\ ObligatoriasFaltantes = {}
    /\ Len(df.rows) = MaxFilas
    /\ Len(valMeta.validaciones) = 1
    /\ Len(valMeta.validaciones[1].reglas) = 2
    /\ Cardinality(evaluadas) = 2 * MaxFilas
    /\ Len(Reporte.errores) = 2 * MaxFilas
    /\ Reporte.errores[1].codigo # Reporte.errores[2].codigo
    /\ Reporte.errores[1].fila = Reporte.errores[2].fila

(***************************************************************************)
(* The consolidated table (SpecSec).                                       *)
(***************************************************************************)
\* the declared sections in ascending order, and their tables
SeccionesEnOrden == _obtener_secciones(secMeta)

TablaDeclarada(k) == DfDe(secDatos, SeccionesEnOrden[k])

\* no column name is used by two declared sections
ColumnasSinRepetir ==
    \A k1, k2 \in 1..Len(SeccionesEnOrden) :
        k1 # k2 => ColsDe(TablaDeclarada(k1)) \cap ColsDe(TablaDeclarada(k2)) = {}

\* C26 (as stated): when every declared section is present and all the
\* supplied sections have n rows, consolidar_dataframes returns a table of
\* exactly n rows whose columns are those of the declared sections side by
\* side in ascending section order, and row i of it holds the values of row
\* i of every declared section.
C26_FilaPorFila ==
    (/\ consolidado # <<>>
     /\ SeccionesEnOrden # <<>>
     /\ Faltantes = {}
     /\ ~FilasDispares
     /\ ColumnasSinRepetir) =>
        /\ consolidado[1].st = "ok"
        /\ Len(consolidado[1].df.rows) = FilasDe(1)
        /\ consolidado[1].df.columns
              = Concat([k \in 1..Len(SeccionesEnOrden) |-> TablaDeclarada(k).columns])
        /\ \A k \in 1..Len(SeccionesEnOrden) :
              \A i \in 1..FilasDe(1) :
                  \A c \in ColsDe(TablaDeclarada(k)) :
                      /\ i <= Len(consolidado[1].df.rows)
                      /\ consolidado[1].df.rows[i][c] = TablaDeclarada(k).rows[i][c]

(***************************************************************************)
(* The names of the evaluation context (SpecVal).                          *)
(***************************************************************************)
\* the context _preparar_contexto_validacion builds for a cell
ContextoDe(c) ==
    _preparar_contexto_validacion(df.rows[c[3] + 1][CampoDe(c)], c[3], df, CampoDe(c))

\* C27 (as stated): in the context built for any cell, valor and v are the
\* value of the cell and fila is the row, whatever the columns of the table
\* are called, and the field of the cell is not exposed under its lowercase
\* code.
C27_NombresFijosIntactos ==
    HayReporte =>
        \A c \in Celdas :
            ContextoDe(c).st = "ok" =>
                /\ ContextoDe(c).ctx["valor"] = df.rows[c[3] + 1][CampoDe(c)]
                /\ ContextoDe(c).ctx["v"] = df.rows[c[3] + 1][CampoDe(c)]
                /\ ContextoDe(c).ctx["fila"] = Serie
                /\ Lower(CampoDe(c)) \notin DOMAIN ContextoDe(c).ctx

(***************************************************************************)
(* Order of the steps of procesar_dj_completo                              *)
(***************************************************************************)
PasosPosibles ==
    <<"metadata_cargada", "datos_procesados", "datos_validados",
      "reporte_errores_generado", "archivo_generado", "datos_guardados">>

PosicionPaso(paso) == CHOOSE k \in 1..Len(PasosPosibles) : PasosPosibles[k] = paso

Pasos == proceso[1].pasos

HayPaso(paso) == \E i \in 1..Len(Pasos) : Pasos[i] = paso

\* C28: pasos_completados is a subsequence of metadata_cargada,
\* datos_procesados, datos_validados, reporte_errores_generado,
\* archivo_generado, datos_guardados in that order; archivo_generado needs
\* datos_validados before it and datos_guardados needs archivo_generado
\* before it; exito is true only if the report is valid and archivo_generado
\* was reached; a step that raises leaves a result with error_critico set
\* and exito false.
C28_PasosEnOrden ==
    Procesado =>
        /\ \A i \in 1..Len(Pasos) : \E k \in 1..Len(PasosPosibles) : Pasos[i] = PasosPosibles[k]
        /\ \A i, j \in 1..Len(Pasos) :
              i < j => PosicionPaso(Pasos[i]) < PosicionPaso(Pasos[j])
        /\ HayPaso("archivo_generado") => HayPaso("datos_validados")
        /\ HayPaso("datos_guardados") => HayPaso("archivo_generado")
        /\ proceso[1].exito
              => proceso[1].validacion = "True" /\ HayPaso("archivo_generado")
        /\ pedido.carga_falla = "metadata"
              => Pasos = <<>> /\ proceso[1].error_critico # ""
        /\ proceso[1].error_critico # "" => ~proceso[1].exito

\* an invalid table whose file was forced and stored: every step but none
\* twice, and exito false
C28_Witness ==
    /\ Procesado
    /\ Pasos = PasosPosibles
    /\ proceso[1].validacion = "False"
    /\ ~proceso[1].exito
    /\ proceso[1].error_critico = ""

(***************************************************************************)
(* Lookups that fail (SpecVal).                                            *)
(***************************************************************************)
\* how many times the call evaluated the rule
EvaluacionesRegla(codigo_validacion) ==
    Cardinality({e \in evaluadas : e[2] = codigo_validacion})

ErroresDeRegla(codigo_validacion) ==
    {j \in 1..Len(Reporte.errores) : Reporte.errores[j].codigo = codigo_validacion}

\* C29 (as stated): after a lookup whose fetch raised, or whose search or
\* return field does not exist, the rule got None, the report has no entry
\* of that rule, and the cache has nothing under that table name.
C29_FalloSinCache ==
    HayReporte =>
        /\ EvaluacionesRegla("V3") > 0
              => ErroresDeRegla("V3") = {} /\ "ROTA" \notin DOMAIN lookupCache
        /\ EvaluacionesRegla("V7") > 0
              => ErroresDeRegla("V7") = {} /\ "UF" \notin DOMAIN lookupCache

\* C29 (amended): a lookup whose fetch raised gives None to the rule, leaves
\* no entry in the report and nothing in the cache under that name, and every
\* later lookup of that table fetches again; a lookup whose return field does
\* not exist also gives None without an entry, but the fetched table stays in
\* the cache and is fetched at most once.
C29_FalloDeTraidaSinCache ==
    HayReporte =>
        /\ EvaluacionesRegla("V3") > 0
              => /\ ErroresDeRegla("V3") = {}
                 /\ "ROTA" \notin DOMAIN lookupCache
                 /\ Veces(consultas, "ROTA") = EvaluacionesRegla("V3")
        /\ EvaluacionesRegla("V7") > 0
              => /\ ErroresDeRegla("V7") = {}
                 /\ "UF" \in DOMAIN lookupCache
                 /\ lookupCache["UF"] = TablasLookup["UF"]
                 /\ Veces(consultas, "UF") <= 1

\* every row looked up a table whose fetch raises, and every row looked up
\* a field the fetched table does not have
C29_Witness ==
    /\ HayReporte
    /\ EvaluacionesRegla("V3") = MaxFilas
    /\ Veces(consultas, "ROTA") = MaxFilas
    /\ EvaluacionesRegla("V7") = MaxFilas
    /\ Veces(consultas, "UF") = 1
    /\ Reporte.valido

(***************************************************************************)
(* Sections supplied but not declared (SpecSec).                           *)
(***************************************************************************)
SeccionesExtra == Claves(secDatos) \ SeccionesDeclaradas(secMeta)

\* the section map without the sections the metadata does not declare
SoloDeclaradas ==
    SelectSeq(secDatos, LAMBDA e : e.nombre \in SeccionesDeclaradas(secMeta))

MismasFilas ==
    \A i, j \in 1..Len(secDatos) : Len(secDatos[i].df.rows) = Len(secDatos[j].df.rows)

\* C30 (as stated): a supplied section that is not declared changes neither
\* the validity of the structure report nor the success of
\* consolidar_dataframes, whatever its row count, and the consolidated table
\* is the one of the declared sections alone.
C30_SeccionExtraSoloAdvierte ==
    SeccionesExtra # {} =>
        /\ estructura # <<>>
              => estructura[1].valido
                    = validar_estructura_secciones(SoloDeclaradas, secMeta).valido
        /\ consolidado # <<>>
              => consolidado[1].st = consolidar_dataframes(SoloDeclaradas, secMeta).st

\* C30 (amended): a supplied section that is not declared is named in a
\* warning and none of its columns reach the consolidated table; when it has
\* as many rows as the other supplied sections it changes neither the
\* validity of the report nor the outcome of consolidar_dataframes; when its
\* row count differs the report is invalid and consolidar_dataframes raises.
C30_SeccionExtraConMismasFilas ==
    SeccionesExtra # {} =>
        /\ estructura # <<>>
              => /\ \E k \in 1..Len(estructura[1].advertencias) :
                       /\ estructura[1].advertencias[k].tipo = "secciones no esperadas"
                       /\ estructura[1].advertencias[k].columnas = SeccionesExtra
                 /\ MismasFilas
                       => estructura[1].valido
                             = validar_estructura_secciones(SoloDeclaradas, secMeta).valido
                 /\ ~MismasFilas => ~estructura[1].valido
        /\ consolidado # <<>>
              => /\ MismasFilas
                       => consolidado[1] = consolidar_dataframes(SoloDeclaradas, secMeta)
                 /\ ~MismasFilas => consolidado[1].st = "ValueError"
                 /\ consolidado[1].st = "ok"
                       => consolidado[1].df
                             = consolidar_dataframes(SoloDeclaradas, secMeta).df

\* the declared sections alone pass both operations; the undeclared section
\* X, with another row count, makes the report invalid and the
\* consolidation raise
C30_Witness ==
    /\ SeccionesExtra = {"X"}
    /\ estructura # <<>>
    /\ consolidado # <<>>
    /\ validar_estructura_secciones(SoloDeclaradas, secMeta).valido
    /\ consolidar_dataframes(SoloDeclaradas, secMeta).st = "ok"
    /\ ~estructura[1].valido
    /\ Len(estructura[1].errores) = 1
    /\ estructura[1].errores[1].tipo = "filas"
    /\ consolidado[1].st = "ValueError"
    /\ consolidado[1].motivo = "filas"

=============================================================================
